---------------------------- MODULE Spec2Model ----------------------------
(***************************************************************************)
(* A model of the news "temperature" service: the sentiment scorer         *)
(* (src/src/sentiment_analyzer.py), the article text cleaner, summariser   *)
(* and crawl assembly (src/src/crawl_naver_api.py).                        *)
(***************************************************************************)
EXTENDS Integers, Sequences, FiniteSets, TLC

VARIABLES
    analyzer,    \* the SentimentAnalyzer's fields after __init__
    sa_pc,       \* "ready" before analyze is called, "done" after it returned
    sa_text,     \* the text analyze was called with
    sa_reply,    \* what the backend consulted by that call answered
    sa_result,   \* the dictionary analyze returned
    english,     \* one call of _is_english_article: arguments and result
    crawl,       \* one call of crawl_news_with_full_text: arguments, loop, results
    fallback,    \* one call of _fallback_summarize: arguments and result
    cleaner,     \* _clean_article_text applied to a text, then to its own output
    summarizer,  \* one call of summarize_text: mode, text, model answer, summary
    search,      \* one call of get_all_news: the pages asked for, the items kept
    app          \* src/app.py: the module state (analyzer, sessions), the responses

sentimentVars == <<analyzer, sa_pc, sa_text, sa_reply, sa_result, app>>
crawlerVars == <<english, crawl, fallback, cleaner, summarizer, search>>
vars == <<sentimentVars, crawlerVars>>

\* a component no call is made to
NotCalled == [pc |-> "not called"]

(***************************************************************************)
(* Sentiment scorer: src/src/sentiment_analyzer.py, class                  *)
(* SentimentAnalyzer.  Scores and probabilities are exact decimals held as *)
(* thousandths (0.65 is 650); temperatures are integers.                   *)
(***************************************************************************)

Max2(a, b) == IF a >= b THEN a ELSE b
Min2(a, b) == IF a <= b THEN a ELSE b

\* int(x * 100) for a score x >= 0 held in thousandths: truncation.
IntTimes100(s) == s \div 10

\* round(x * 100) for a score x >= 0 held in thousandths: Python 3 rounds
\* halves to the even neighbour.
RoundTimes100(s) ==
    LET q == s \div 10
        r == s % 10
    IN  IF r < 5 THEN q
        ELSE IF r > 5 THEN q + 1
        ELSE IF q % 2 = 0 THEN q ELSE q + 1

Clamp(x, lo, hi) == Max2(lo, Min2(hi, x))

LabelPositive == "geungjeongjeog"   \* 긍정적
LabelNeutral  == "botong"           \* 보통
LabelNegative == "bujeongjeog"      \* 부정적
CanonicalLabels == {LabelPositive, LabelNeutral, LabelNegative}

NoResult == [label |-> "", score |-> 0, temperature |-> 0, image_path |-> ""]
NoReply  == [kind |-> "none", label |-> "", score |-> 0, neg |-> 0, neu |-> 0, pos |-> 0]

\* ---- the text of an article, as the analyzer sees it -------------------
\* A text is a sequence of characters in which the symbol PadSym stands for
\* a run of PadLen filler characters "." (a character of no keyword and of
\* no pattern, and not white space), so that long articles stay small.
PadSym == "PAD"
PadLen == 1100
MaxUnits == 2

\* Hangul syllables are written in Latin letters, one string a syllable
\* (the silent initial is "q"); every other character is itself.
PhraseAccident == <<"gyo","tong","sa","go","ro"," ","sum","jyeoss","da",".">>  \* 교통사고로 숨졌다.
PhraseGrowth   == <<"seong","jang","gwa"," ","tu","ja",".">>                   \* 성장과 투자.
PhraseAI       == <<"A","I"," ","gi","sul",".">>                               \* AI 기술.
PhraseDecline  == <<"mae","chul"," ","gam","so",".">>                          \* 매출 감소.
PhraseBut      == <<"geu","reo","na",".">>                                     \* 그러나.
Units == {PhraseAccident, PhraseGrowth, PhraseAI, PhraseDecline, PhraseBut}

RECURSIVE Concat(_)
Concat(ss) ==
    IF Len(ss) = 0 THEN <<>>
    ELSE IF Len(ss) = 1 THEN ss[1]
    ELSE LET half == Len(ss) \div 2
         IN  Concat(SubSeq(ss, 1, half)) \o Concat(SubSeq(ss, half + 1, Len(ss)))

UnitSeqs == UNION {[1..n -> Units] : n \in 0..MaxUnits}
\* An article: sentences, with filler before and after them.
Texts ==
    {pre \o Concat(body) \o post :
        pre \in {<<>>, <<PadSym>>, <<PadSym, PadSym>>}, body \in UnitSeqs,
        post \in {<<>>, <<PadSym>>}}

Width(c) == IF c = PadSym THEN PadLen ELSE 1

RECURSIVE TextLen(_)
TextLen(t) == IF t = <<>> THEN 0 ELSE Width(Head(t)) + TextLen(Tail(t))

Squash(t) == [i \in 1..Len(t) |-> IF t[i] = PadSym THEN "." ELSE t[i]]

\* text[:k]: the symbols that begin before offset k (a filler run that is
\* cut stays a filler run).
RECURSIVE FirstChars(_, _)
FirstChars(t, k) ==
    IF t = <<>> \/ k <= 0 THEN <<>>
    ELSE <<Head(t)>> \o FirstChars(Tail(t), k - Width(Head(t)))

Reverse(t) == [i \in 1..Len(t) |-> t[Len(t) + 1 - i]]

\* text[-k:] for 0 < k
LastChars(t, k) == Reverse(FirstChars(Reverse(t), k))

\* A text is a sequence of characters.  An ASCII character is written as
\* itself; a Hangul syllable (U+AC00..U+D7A3, the range 가-힣) is written by
\* its romanisation, always two or more letters (가 is "ga", 아 is "qa");
\* the other characters of the sources' patterns by their code point.
LowerOf ==
    [A |-> "a", B |-> "b", C |-> "c", D |-> "d", E |-> "e", F |-> "f", G |-> "g",
     H |-> "h", I |-> "i", J |-> "j", K |-> "k", L |-> "l", M |-> "m", N |-> "n",
     O |-> "o", P |-> "p", Q |-> "q", R |-> "r", S |-> "s", T |-> "t", U |-> "u",
     V |-> "v", W |-> "w", X |-> "x", Y |-> "y", Z |-> "z"]
LatinLetters == DOMAIN LowerOf \cup {LowerOf[c] : c \in DOMAIN LowerOf}
Digits == {"0", "1", "2", "3", "4", "5", "6", "7", "8", "9"}
Whitespace == {" ", "\n", "\t"}
Punctuation ==
    {".", ",", "=", ":", "(", ")", "[", "]", "/", "@", "#", "-", "_", "%", "+",
     "!", "?", "U+00A9", "U+2026", "U+3002", "U+FF01", "U+FF1F"}
IsHangul(c) == c \notin LatinLetters \cup Digits \cup Whitespace \cup Punctuation

\* str.lower()
Lower(c) == IF c \in DOMAIN LowerOf THEN LowerOf[c] ELSE c
LowerText(t) == [i \in 1..Len(t) |-> Lower(t[i])]

IsSpace(c) == c \in Whitespace

\* keyword in text
Contains(t, k) ==
    \E i \in 1..(Len(t) - Len(k) + 1) : SubSeq(t, i, i + Len(k) - 1) = k

\* re.search of a pattern lit1\s*lit2\s*...: the literals in order, any
\* white space between them.
RECURSIVE MatchChunksAt(_, _, _)
MatchChunksAt(t, chunks, i) ==
    IF chunks = <<>> THEN TRUE
    ELSE LET c == Head(chunks)
         IN  /\ i + Len(c) - 1 <= Len(t)
             /\ SubSeq(t, i, i + Len(c) - 1) = c
             /\ \/ Tail(chunks) = <<>>
                \/ \E j \in (i + Len(c))..(Len(t) + 1) :
                      /\ \A m \in (i + Len(c))..(j - 1) : IsSpace(t[m])
                      /\ MatchChunksAt(t, Tail(chunks), j)

SearchPattern(t, chunks) == \E i \in 1..Len(t) : MatchChunksAt(t, chunks, i)

\* sum(1 for keyword in keywords if keyword in text): a keyword listed
\* twice counts twice.
CountKeywords(keywords, t) ==
    Cardinality({i \in 1..Len(keywords) : Contains(t, keywords[i])})

CountPatterns(patterns, t) ==
    Cardinality({i \in 1..Len(patterns) : SearchPattern(t, patterns[i])})
positive_keywords ==
    <<
       <<"qwan","seung">>                      , \* 완승
       <<"seong","gong">>                      , \* 성공
       <<"seung","ri">>                        , \* 승리
       <<"bal","jeon">>                        , \* 발전
       <<"seong","jang">>                      , \* 성장
       <<"jeung","ga">>                        , \* 증가
       <<"gae","seon">>                        , \* 개선
       <<"hyeog","sin">>                       , \* 혁신
       <<"hwag","dae">>                        , \* 확대
       <<"sang","seung">>                      , \* 상승
       <<"hyang","sang">>                      , \* 향상
       <<"do","qyag">>                         , \* 도약
       <<"gi","dae">>                          , \* 기대
       <<"geung","jeong">>                     , \* 긍정
       <<"ho","jae">>                          , \* 호재
       <<"ho","jo">>                           , \* 호조
       <<"hwag","jang">>                       , \* 확장
       <<"tu","ja">>                           , \* 투자
       <<"hyeob","ryeog">>                     , \* 협력
       <<"pa","teu","neo","sib">>              , \* 파트너십
       <<"gi","sul">>                          , \* 기술
       <<"gae","bal">>                         , \* 개발
       <<"chul","si">>                         , \* 출시
       <<"su","sang">>                         , \* 수상
       <<"qin","jeong">>                       , \* 인정
       <<"pyeong","ga">>                       , \* 평가
       <<"qu","su">>                           , \* 우수
       <<"choe","go">>                         , \* 최고
       <<"1","qwi">>                           , \* 1위
       <<"seon","du">>                         , \* 선두
       <<"dol","pa">>                          , \* 돌파
       <<"gi","rog">>                          , \* 기록
       <<"choe","dae">>                        , \* 최대
       <<"choe","go","chi">>                   , \* 최고치
       <<"sang","seung","se">>                 , \* 상승세
       <<"ho","jeon">>                         , \* 호전
       <<"gae","seon","se">>                     \* 개선세
    >>

strong_negative_keywords ==
    <<
       <<"sum","ji">>                          , \* 숨지
       <<"sa","mang">>                         , \* 사망
       <<"sa","go","ro">>                      , \* 사고로
       <<"sa","go","ro"," ","qin","hae">>      , \* 사고로 인해
       <<"sa","go","ro"," ","sa","mang">>      , \* 사고로 사망
       <<"bang","chi">>                        , \* 방치
       <<"qyu","gi">>                          , \* 유기
       <<"sal","qin">>                         , \* 살인
       <<"pog","haeng">>                       , \* 폭행
       <<"gang","do">>                         , \* 강도
       <<"gang","gan">>                        , \* 강간
       <<"seong","pog","haeng">>               , \* 성폭행
       <<"hag","dae">>                         , \* 학대
       <<"pog","ryeog">>                       , \* 폭력
       <<"te","reo">>                          , \* 테러
       <<"pog","bal">>                         , \* 폭발
       <<"hwa","jae">>                         , \* 화재
       <<"bung","goe">>                        , \* 붕괴
       <<"chu","rag">>                         , \* 추락
       <<"chung","dol">>                       , \* 충돌
       <<"gyo","tong","sa","go">>              , \* 교통사고
       <<"gyo","tong","sa","go","ro">>         , \* 교통사고로
       <<"sa","go","ro"," ","sum","ji">>       , \* 사고로 숨지
       <<"sa","go","ro"," ","sa","mang">>      , \* 사고로 사망
       <<"sa","go","ro"," ","bu","sang">>      , \* 사고로 부상
       <<"sa","go","ro"," ","da","chyeo">>     , \* 사고로 다쳐
       <<"bi","geug">>                         , \* 비극
       <<"cham","sa">>                         , \* 참사
       <<"jae","nan">>                         , \* 재난
       <<"jae","hae">>                         , \* 재해
       <<"pi","hae","ja">>                     , \* 피해자
       <<"hui","saeng","ja">>                  , \* 희생자
       <<"bu","sang","ja">>                      \* 부상자
    >>

negative_keywords ==
    <<
       <<"gam","so">>                          , \* 감소
       <<"ha","rag">>                          , \* 하락
       <<"qwi","gi">>                          , \* 위기
       <<"mun","je">>                          , \* 문제
       <<"sa","go">>                           , \* 사고
       <<"bu","jeong">>                        , \* 부정
       <<"bu","sil">>                          , \* 부실
       <<"sil","pae">>                         , \* 실패
       <<"pye","swae">>                        , \* 폐쇄
       <<"do","san">>                          , \* 도산
       <<"pa","san">>                          , \* 파산
       <<"son","sil">>                         , \* 손실
       <<"jeog","ja">>                         , \* 적자
       <<"chug","so">>                         , \* 축소
       <<"gam","qwon">>                        , \* 감원
       <<"hae","go">>                          , \* 해고
       <<"sil","qeob">>                        , \* 실업
       <<"bul","qan">>                         , \* 불안
       <<"qu","ryeo">>                         , \* 우려
       <<"gyeong","go">>                       , \* 경고
       <<"qwi","heom">>                        , \* 위험
       <<"bu","sang">>                         , \* 부상
       <<"pi","hae">>                          , \* 피해
       <<"bi","ri">>                           , \* 비리
       <<"qui","hog">>                         , \* 의혹
       <<"non","ran">>                         , \* 논란
       <<"jo","rong">>                         , \* 조롱
       <<"bi","nan">>                          , \* 비난
       <<"ha","rag","se">>                     , \* 하락세
       <<"qag","hwa">>                         , \* 악화
       <<"soe","toe">>                         , \* 쇠퇴
       <<"hu","toe">>                          , \* 후퇴
       <<"sil","jeog","bu","jin">>             , \* 실적부진
       <<"bu","jin">>                            \* 부진
    >>

negative_patterns ==
    <<
       <<<<"sum","ji">>>>                                          , \* 숨지
       <<<<"sa","mang">>, <<"haess","da">>>>                       , \* 사망\s*했다
       <<<<"bang","chi">>>>                                        , \* 방치
       <<<<"qyu","gi">>>>                                          , \* 유기
       <<<<"cha","qe">>, <<"bang","chi">>>>                        , \* 차에\s*방치
       <<<<"cha","ryang","qe">>, <<"bang","chi">>>>                , \* 차량에\s*방치
       <<<<"cha","qe">>, <<"nam","gyeo">>>>                        , \* 차에\s*남겨
       <<<<"cha","ryang","qe">>, <<"nam","gyeo">>>>                , \* 차량에\s*남겨
       <<<<"sa","go","ro">>, <<"sum","ji">>>>                      , \* 사고로\s*숨지
       <<<<"sa","go","ro">>, <<"sa","mang">>>>                     , \* 사고로\s*사망
       <<<<"sa","go","ro">>, <<"qin","hae">>>>                     , \* 사고로\s*인해
       <<<<"gyo","tong","sa","go">>>>                              , \* 교통사고
       <<<<"gyo","tong","sa","go","ro">>>>                         , \* 교통사고로
       <<<<"ha","ji">>, <<"mos">>>>                                , \* 하지\s*못
       <<<<"mos">>, <<"haess","da">>>>                             , \* 못\s*했다
       <<<<"sil","pae">>, <<"haess","da">>>>                       , \* 실패\s*했다
       <<<<"bo","da">>, <<"naj">>>>                                , \* 보다\s*낮
       <<<<"bo","da">>, <<"mos">>>>                                , \* 보다\s*못
       <<<<"mos">>, <<"mi","chin">>>>                              , \* 못\s*미친
       <<<<"qe">>, <<"mos">>, <<"mi","chin">>>>                    , \* 에\s*못\s*미친
       <<<<"qe">>, <<"sil","pae">>>>                               , \* 에\s*실패
       <<<<"ha","ji">>, <<"qanh">>>>                               , \* 하지\s*않
       <<<<"qeobs">>, <<"qeoss","da">>>>                           , \* 없\s*었다
       <<<<"qeobs">>, <<"qeoss","qeum">>>>                         , \* 없\s*었음
       <<<<"qeobs">>, <<"qeo">>>>                                  , \* 없\s*어
       <<<<"bu","jog">>>>                                          , \* 부족
       <<<<"bu","jog">>, <<"haess","da">>>>                        , \* 부족\s*했다
       <<<<"mi","dal">>>>                                          , \* 미달
       <<<<"mi","dal">>, <<"haess","da">>>>                        , \* 미달\s*했다
       <<<<"gi","dae">>, <<"qe">>, <<"mos">>, <<"mi","chin">>>>    , \* 기대\s*에\s*못\s*미친
       <<<<"gi","dae">>, <<"qi","ha">>>>                           , \* 기대\s*이하
       <<<<"qye","sang">>, <<"bo","da">>, <<"naj">>>>              , \* 예상\s*보다\s*낮
       <<<<"qye","sang">>, <<"bo","da">>, <<"mos">>>>              , \* 예상\s*보다\s*못
       <<<<"jeon","nyeon">>, <<"dae","bi">>, <<"gam","so">>>>      , \* 전년\s*대비\s*감소
       <<<<"jeon","nyeon">>, <<"dae","bi">>, <<"ha","rag">>>>      , \* 전년\s*대비\s*하락
       <<<<"jeon","nyeon">>, <<"dae","bi">>, <<"jul","qeo">>>>     , \* 전년\s*대비\s*줄어
       <<<<"jeon","nyeon">>, <<"dae","bi">>, <<"tteol","qeo">>>>   , \* 전년\s*대비\s*떨어
       <<<<"jeon","bun","gi">>, <<"dae","bi">>, <<"gam","so">>>>   , \* 전분기\s*대비\s*감소
       <<<<"jeon","bun","gi">>, <<"dae","bi">>, <<"ha","rag">>>>   , \* 전분기\s*대비\s*하락
       <<<<"mog","pyo">>, <<"qe">>, <<"mos">>, <<"mi","chin">>>>   , \* 목표\s*에\s*못\s*미친
       <<<<"mog","pyo">>, <<"qi","ha">>>>                          , \* 목표\s*이하
       <<<<"mog","pyo">>, <<"mi","dal">>>>                         , \* 목표\s*미달
       <<<<"gi","rog">>, <<"bo","da">>, <<"naj">>>>                , \* 기록\s*보다\s*낮
       <<<<"gi","rog">>, <<"bo","da">>, <<"mos">>>>                , \* 기록\s*보다\s*못
       <<<<"qi","jeon">>, <<"bo","da">>, <<"na","ppa">>>>          , \* 이전\s*보다\s*나빠
       <<<<"qi","jeon">>, <<"bo","da">>, <<"tteol","qeo">>>>       , \* 이전\s*보다\s*떨어
       <<<<"qi","jeon">>, <<"bo","da">>, <<"jul","qeo">>>>         , \* 이전\s*보다\s*줄어
       <<<<"qe","do">>, <<"bul","gu","ha","go">>>>                 , \* 에도\s*불구하고
       <<<<"qim","qe","do">>, <<"bul","gu">>>>                     , \* 임에도\s*불구
       <<<<"geu","reom","qe","do">>, <<"bul","gu">>>>              , \* 그럼에도\s*불구
       <<<<"geu","reo","na">>>>                                    , \* 그러나
       <<<<"ha","ji","man">>>>                                     , \* 하지만
       <<<<"da","man">>>>                                          , \* 다만
       <<<<"qa","swib","ge","do">>>>                               , \* 아쉽게도
       <<<<"qan","ta","kkab","ge","do">>>>                         , \* 안타깝게도
       <<<<"qyu","gam","seu","reob","ge","do">>>>                  , \* 유감스럽게도
       <<<<"qa","swib">>>>                                         , \* 아쉽
       <<<<"qan","ta","kkab">>>>                                   , \* 안타깝
       <<<<"qyu","gam">>>>                                         , \* 유감
       <<<<"qu","ryeo">>, <<"doen","da">>>>                        , \* 우려\s*된다
       <<<<"qu","ryeo">>, <<"ga">>>>                               , \* 우려\s*가
       <<<<"geog","jeong">>, <<"doen","da">>>>                     , \* 걱정\s*된다
       <<<<"geog","jeong">>, <<"qi">>>>                            , \* 걱정\s*이
       <<<<"bul","qan">>, <<"ha","da">>>>                          , \* 불안\s*하다
       <<<<"bul","qan">>, <<"gam">>>>                              , \* 불안\s*감
       <<<<"qwi","heom">>, <<"ha","da">>>>                         , \* 위험\s*하다
       <<<<"qwi","heom">>, <<"qi">>>>                              , \* 위험\s*이
       <<<<"mun","je">>, <<"ga">>, <<"qiss","da">>>>               , \* 문제\s*가\s*있다
       <<<<"mun","je">>, <<"ga">>, <<"bal","saeng">>>>             , \* 문제\s*가\s*발생
       <<<<"mun","je">>, <<"ga">>, <<"na","ta","na">>>>            , \* 문제\s*가\s*나타나
       <<<<"qeo","ryeo","qum">>>>                                  , \* 어려움
       <<<<"qeo","ryeo","qum">>, <<"qeul">>, <<"gyeokk">>>>        , \* 어려움\s*을\s*겪
       <<<<"nan","gwan">>>>                                        , \* 난관
       <<<<"nan","gwan">>, <<"qe">>>>                              , \* 난관\s*에
       <<<<"jang","qae">>>>                                        , \* 장애
       <<<<"jang","qae">>, <<"mul">>>>                             , \* 장애\s*물
       <<<<"je","qyag">>>>                                         , \* 제약
       <<<<"je","qyag">>, <<"qi">>>>                               , \* 제약\s*이
       <<<<"han","gye">>>>                                         , \* 한계
       <<<<"han","gye">>, <<"reul">>>>                             , \* 한계\s*를
       <<<<"bu","jog">>, <<"ha","da">>>>                           , \* 부족\s*하다
       <<<<"bu","jog">>, <<"han">>>>                               , \* 부족\s*한
       <<<<"bu","jog">>, <<"ham">>>>                               , \* 부족\s*함
       <<<<"mi","heub">>>>                                         , \* 미흡
       <<<<"mi","heub">>, <<"ha","da">>>>                          , \* 미흡\s*하다
       <<<<"mi","heub">>, <<"han">>>>                              , \* 미흡\s*한
       <<<<"qa","swi","qum">>>>                                    , \* 아쉬움
       <<<<"qa","swi","qum">>, <<"qeul">>>>                        , \* 아쉬움\s*을
       <<<<"qa","swi","qun">>>>                                    , \* 아쉬운
       <<<<"qa","swi","qun">>, <<"jeom">>>>                        , \* 아쉬운\s*점
       <<<<"qa","swi","qun">>, <<"bu","bun">>>>                      \* 아쉬운\s*부분
    >>

pipeline_positive_keywords ==
    <<
       <<"bal","jeon">>                        , \* 발전
       <<"seong","jang">>                      , \* 성장
       <<"jeung","ga">>                        , \* 증가
       <<"gae","seon">>                        , \* 개선
       <<"hyeog","sin">>                       , \* 혁신
       <<"seong","gong">>                      , \* 성공
       <<"hwag","dae">>                        , \* 확대
       <<"sang","seung">>                      , \* 상승
       <<"hyang","sang">>                      , \* 향상
       <<"do","qyag">>                         , \* 도약
       <<"gi","dae">>                          , \* 기대
       <<"geung","jeong">>                     , \* 긍정
       <<"ho","jae">>                          , \* 호재
       <<"ho","jo">>                           , \* 호조
       <<"hwag","dae">>                        , \* 확대
       <<"hwag","jang">>                       , \* 확장
       <<"tu","ja">>                           , \* 투자
       <<"hyeob","ryeog">>                     , \* 협력
       <<"pa","teu","neo","sib">>              , \* 파트너십
       <<"gi","sul">>                          , \* 기술
       <<"hyeog","sin">>                       , \* 혁신
       <<"gae","bal">>                         , \* 개발
       <<"chul","si">>                         , \* 출시
       <<"su","sang">>                         , \* 수상
       <<"qin","jeong">>                       , \* 인정
       <<"pyeong","ga">>                       , \* 평가
       <<"qu","su">>                           , \* 우수
       <<"choe","go">>                         , \* 최고
       <<"1","qwi">>                           , \* 1위
       <<"seon","du">>                           \* 선두
    >>

pipeline_negative_keywords ==
    <<
       <<"gam","so">>                          , \* 감소
       <<"ha","rag">>                          , \* 하락
       <<"qwi","gi">>                          , \* 위기
       <<"mun","je">>                          , \* 문제
       <<"sa","go">>                           , \* 사고
       <<"bu","jeong">>                        , \* 부정
       <<"bu","sil">>                          , \* 부실
       <<"sil","pae">>                         , \* 실패
       <<"pye","swae">>                        , \* 폐쇄
       <<"do","san">>                          , \* 도산
       <<"pa","san">>                          , \* 파산
       <<"son","sil">>                         , \* 손실
       <<"jeog","ja">>                         , \* 적자
       <<"gam","so">>                          , \* 감소
       <<"chug","so">>                         , \* 축소
       <<"gam","qwon">>                        , \* 감원
       <<"hae","go">>                          , \* 해고
       <<"sil","qeob">>                        , \* 실업
       <<"bul","qan">>                         , \* 불안
       <<"qu","ryeo">>                         , \* 우려
       <<"gyeong","go">>                       , \* 경고
       <<"qwi","heom">>                        , \* 위험
       <<"sa","go">>                           , \* 사고
       <<"sa","mang">>                         , \* 사망
       <<"bu","sang">>                         , \* 부상
       <<"pi","hae">>                          , \* 피해
       <<"son","sil">>                         , \* 손실
       <<"bi","ri">>                           , \* 비리
       <<"bu","jeong">>                        , \* 부정
       <<"bi","ri">>                           , \* 비리
       <<"qui","hog">>                         , \* 의혹
       <<"non","ran">>                         , \* 논란
       <<"jo","rong">>                         , \* 조롱
       <<"bi","nan">>                            \* 비난
    >>

\* ---- SentimentAnalyzer.__init__ ---------------------------------------
\* What construction meets in its environment.
Environments ==
    [use_openai : BOOLEAN, api_key : BOOLEAN, openai_available : BOOLEAN,
     client_ok : BOOLEAN, transformers_available : BOOLEAN,
     finetuned_loads : BOOLEAN, pipeline_loads : BOOLEAN]

\* The analyzer's fields after __init__ in environment e.
Construct(e) ==
    LET first     == e.use_openai /\ e.api_key /\ e.openai_available
        finetuned == e.transformers_available /\ e.finetuned_loads
    IN  [use_openai          |-> IF first THEN e.client_ok
                                 ELSE IF e.use_openai /\ ~e.openai_available THEN FALSE
                                 ELSE e.use_openai,
         openai_client       |-> first /\ e.client_ok,
         use_finetuned_model |-> finetuned,
         classifier          |-> e.transformers_available /\ ~finetuned /\ e.pipeline_loads]

\* ---- SentimentAnalyzer._analyze_with_openai ---------------------------
ScoreBandPositive == 700
ScoreBandNegative == 300

\* What the chat-completion call can come back with: a transport error,
\* text that is no JSON, a JSON object with a label and a score, a JSON
\* object with a label and no 'score' key, or a JSON object whose score
\* float() does not take (null, "high").
LlmLabels == {LabelPositive, LabelNeutral, LabelNegative, "positive"}
LlmScores == {-500, 0, 295, 300, 305, 500, 555, 700, 995, 1000, 1500}
LlmReplies ==
    {[NoReply EXCEPT !.kind = "api_error"], [NoReply EXCEPT !.kind = "bad_json"]}
    \cup {[NoReply EXCEPT !.kind = "json", !.label = l, !.score = s] :
            l \in LlmLabels, s \in LlmScores}
    \cup {[NoReply EXCEPT !.kind = "no_score", !.label = l] : l \in LlmLabels}
    \cup {[NoReply EXCEPT !.kind = "bad_score", !.label = l] : l \in LlmLabels}

\* result_json.get('score', 0.5), line 231
ScoreOfReply(reply) == IF reply.kind = "no_score" THEN 500 ELSE reply.score

\* the score taken as the model gives it, without line 234
AnalyzeWithOpenAI_Mutant(reply) ==
    IF reply.kind \notin {"json", "no_score"} THEN [label |-> LabelNeutral, score |-> 500]
    ELSE [label |-> IF reply.label \in CanonicalLabels THEN reply.label
                    ELSE IF ScoreOfReply(reply) >= ScoreBandPositive THEN LabelPositive
                    ELSE IF ScoreOfReply(reply) <= ScoreBandNegative THEN LabelNegative
                    ELSE LabelNeutral,
          score |-> ScoreOfReply(reply)]

\* lines 230-272: json.loads, float() and the transport raise into the two
\* except clauses, which return the neutral default
AnalyzeWithOpenAI(reply) ==
    IF reply.kind \notin {"json", "no_score"} THEN [label |-> LabelNeutral, score |-> 500]
    ELSE LET score == Max2(0, Min2(1000, ScoreOfReply(reply)))
             label == IF reply.label \notin CanonicalLabels
                      THEN IF score >= ScoreBandPositive THEN LabelPositive
                           ELSE IF score <= ScoreBandNegative THEN LabelNegative
                           ELSE LabelNeutral
                      ELSE reply.label
         IN  [label |-> label, score |-> score]

\* analyze, lines 291-316: the external branch
AnalyzeExternal(reply) ==
    LET r == AnalyzeWithOpenAI(reply)
    IN  [label       |-> r.label,
         score       |-> r.score,
         temperature |-> Clamp(IntTimes100(r.score), 0, 100),
         image_path  |-> IF r.label = LabelPositive THEN "static/3.png"
                         ELSE IF r.label = LabelNegative THEN "static/1.png"
                         ELSE "static/2.png"]

\* the neutral image misnamed as in the pipeline branch
DefaultResult_Mutant ==
    [label |-> LabelNeutral, score |-> 500, temperature |-> 50,
     image_path |-> "temp/2.png"]

\* lines 321-328 and 753-763
DefaultResult ==
    [label |-> LabelNeutral, score |-> 500, temperature |-> 50,
     image_path |-> "static/2.png"]

\* ---- analyze: the text handed to the local classifier ------------------
LongTextLimit == 2000
HeadChars == 1500
TailChars == 500

TextForAnalysis(t) ==
    IF TextLen(t) > LongTextLimit
    THEN FirstChars(t, HeadChars) \o <<" ">> \o LastChars(t, TailChars)
    ELSE t

\* text_for_analysis.lower(), its filler runs written as one "."
TextLower(t) == LowerText(Squash(TextForAnalysis(t)))

\* ---- analyze: the fine-tuned classifier, lines 341-387 -----------------
\* The classifier's answer: the three class probabilities (thousandths,
\* summing to one), or an exception.
Probabilities ==
    {[NoReply EXCEPT !.kind = "probs", !.neg = a * 100, !.neu = b * 100,
                     !.pos = 1000 - (a + b) * 100] :
        a \in 0..10, b \in 0..10}
FinetunedReplies ==
    {p \in Probabilities : p.pos >= 0} \cup {[NoReply EXCEPT !.kind = "raise"]}

\* torch.argmax over (negative, neutral, positive), the first maximum, then
\* label_map
PredictedLabel(p) ==
    IF p.neg >= p.neu /\ p.neg >= p.pos THEN LabelNegative
    ELSE IF p.neu >= p.pos THEN LabelNeutral
    ELSE LabelPositive

\* score = 0.5 + (prob_positive - prob_negative) * 0.5, limited to [0, 1]
BaseScore(p) == Max2(0, Min2(1000, 500 + (p.pos - p.neg) \div 2))

\* ---- analyze: keyword correction of the fine-tuned model, 408-625 ------
\* the override asking for more than three strong keywords
StrongNegativeDetected_Mutant(strong_negative_count) == strong_negative_count > 3

\* line 563
StrongNegativeDetected(strong_negative_count) == strong_negative_count > 0

\* lines 563-577
StrongNegativeResult(strong_negative_count) ==
    LET adjusted_score == Max2(0, 200 - strong_negative_count * 100)
    IN  [label       |-> LabelNegative,
         score       |-> adjusted_score,
         temperature |-> Max2(0, Min2(20, IntTimes100(adjusted_score))),
         image_path  |-> "static/1.png"]

\* lines 581-589; negative_count already holds the context matches
KeywordBias(positive_count, negative_count, context_negative_count) ==
    LET b1 == IF positive_count > 0 THEN Min2(400, positive_count * 100) ELSE 0
    IN  IF negative_count > 0
        THEN IF context_negative_count > 0
             THEN Max2(-400, -(negative_count * 120))
             ELSE Max2(-300, -(negative_count * 100))
        ELSE b1

PositiveThreshold == 650
NegativeThreshold == 350

ImageOf(label) ==
    IF label = LabelPositive THEN "static/3.png"
    ELSE IF label = LabelNegative THEN "static/1.png"
    ELSE "static/2.png"

\* the judgement without the keyword priority of lines 605-613: between the
\* two thresholds the classifier's label is kept
FinetunedJudgement_Mutant(label, score, positive_count, negative_count, context_negative_count) ==
    LET adjusted == Max2(0, Min2(1000, score + KeywordBias(positive_count, negative_count,
                                                           context_negative_count)))
        sentiment == IF adjusted >= PositiveThreshold THEN LabelPositive
                     ELSE IF adjusted <= NegativeThreshold THEN LabelNegative
                     ELSE label
    IN  [label       |-> sentiment,
         score       |-> score,
         temperature |-> Clamp(IntTimes100(adjusted), 0, 100),
         image_path  |-> ImageOf(sentiment)]

\* lines 592-625 and 735-751: the dictionary returned carries the model's
\* score, the temperature comes from the adjusted score.
FinetunedJudgement(label, score, positive_count, negative_count, context_negative_count) ==
    LET keyword_bias == KeywordBias(positive_count, negative_count, context_negative_count)
        adjusted     == Max2(0, Min2(1000, score + keyword_bias))
        verdict ==
            IF adjusted >= PositiveThreshold
            THEN [sentiment |-> LabelPositive, adjusted_score |-> adjusted]
            ELSE IF adjusted <= NegativeThreshold
            THEN [sentiment |-> LabelNegative, adjusted_score |-> adjusted]
            ELSE IF positive_count >= 2 /\ positive_count > negative_count
            THEN [sentiment |-> LabelPositive,
                  adjusted_score |-> Min2(1000, 650 + positive_count * 100)]
            ELSE IF negative_count >= 2 /\ negative_count > positive_count
            THEN [sentiment |-> LabelNegative,
                  adjusted_score |-> Max2(0, 350 - negative_count * 100)]
            ELSE [sentiment |-> label, adjusted_score |-> adjusted]
    IN  [label       |-> verdict.sentiment,
         score       |-> score,
         temperature |-> Clamp(IntTimes100(verdict.adjusted_score), 0, 100),
         image_path  |-> ImageOf(verdict.sentiment)]

\* lines 411, 537-547: the counts taken from the text, for every text
FinetunedCounts ==
    [t \in Texts |->
        LET text_lower == TextLower(t)
        IN  [positive_count         |-> CountKeywords(positive_keywords, text_lower),
             negative_count         |-> CountKeywords(negative_keywords, text_lower),
             strong_negative_count  |-> CountKeywords(strong_negative_keywords, text_lower),
             context_negative_count |-> CountPatterns(negative_patterns, text_lower)]]

\* analyze on the fine-tuned model, for text t and classifier answer p
AnalyzeFinetunedResult(t, p) ==
    IF p.kind = "raise" THEN DefaultResult
    ELSE
    LET positive_count         == FinetunedCounts[t].positive_count
        strong_negative_count  == FinetunedCounts[t].strong_negative_count
        context_negative_count == FinetunedCounts[t].context_negative_count
        \* lines 550-551
        negative_count == FinetunedCounts[t].negative_count + context_negative_count
    IN  IF StrongNegativeDetected(strong_negative_count)
        THEN StrongNegativeResult(strong_negative_count)
        ELSE FinetunedJudgement(PredictedLabel(p), BaseScore(p), positive_count,
                                negative_count, context_negative_count)

\* ---- analyze: the generic pipeline classifier, lines 390-398, 631-751 --
\* Labels the pipeline models give, and str(label).lower() of each.
PipelineLabels == {"POSITIVE", "NEGATIVE", "neutral", "LABEL_1", "5 stars", "1 star", "3 stars"}
LabelLower(l) ==
    IF l = "POSITIVE" THEN "positive"
    ELSE IF l = "NEGATIVE" THEN "negative"
    ELSE IF l = "LABEL_1" THEN "label_1"
    ELSE l
PipelineScores == {0, 250, 300, 305, 500, 555, 700, 995, 1000}
PipelineReplies ==
    {[NoReply EXCEPT !.kind = "raise"]}
    \cup {[NoReply EXCEPT !.kind = "pipe", !.label = l, !.score = s] :
            l \in PipelineLabels, s \in PipelineScores}

\* any(keyword in label_lower for keyword in [...]), lines 637-643, on the
\* labels above: 'positive', '5 star' / 'negative', '1 star' are the
\* substrings found.
IsPositiveLabel(label_lower) == label_lower \in {"positive", "5 stars"}
IsNegativeLabel(label_lower) == label_lower \in {"negative", "1 star"}

PipelineBias(positive_count, negative_count) ==
    IF negative_count > 0 THEN Max2(-300, -(negative_count * 100))
    ELSE IF positive_count > 0 THEN Min2(300, positive_count * 100)
    ELSE 0

AbsInt(x) == IF x < 0 THEN -x ELSE x

\* lines 682-730: the label and the image file
PipelineVerdict(l, score, positive_count, negative_count) ==
    LET keyword_bias == PipelineBias(positive_count, negative_count)
    IN  IF IsPositiveLabel(l)
        THEN LET adjusted_score == Min2(1000, score + keyword_bias)
             IN  IF adjusted_score >= 700
                 THEN [sentiment |-> LabelPositive, image |-> "static/3.png"]
                 ELSE IF adjusted_score <= 300
                 THEN [sentiment |-> LabelNegative, image |-> "static/1.png"]
                 ELSE [sentiment |-> LabelNeutral, image |-> "temp/2.png"]
        ELSE IF IsNegativeLabel(l)
        THEN LET adjusted_score == Max2(0, score - AbsInt(keyword_bias))
             IN  IF adjusted_score <= 300
                 THEN [sentiment |-> LabelNegative, image |-> "static/1.png"]
                 ELSE IF adjusted_score >= 700
                 THEN [sentiment |-> LabelPositive, image |-> "static/3.png"]
                 ELSE [sentiment |-> LabelNeutral, image |-> "temp/2.png"]
        ELSE LET final_score == score + keyword_bias
             IN  IF positive_count > negative_count /\ positive_count > 2
                 THEN [sentiment |-> LabelPositive, image |-> "static/3.png"]
                 ELSE IF negative_count > positive_count /\ negative_count > 0
                 THEN [sentiment |-> LabelNegative, image |-> "static/1.png"]
                 ELSE IF final_score >= 700
                 THEN [sentiment |-> LabelPositive, image |-> "static/3.png"]
                 ELSE IF final_score <= 300
                 THEN [sentiment |-> LabelNegative, image |-> "static/1.png"]
                 ELSE [sentiment |-> LabelNeutral, image |-> "static/2.png"]

\* lines 651, 670-671
PipelineCounts ==
    [t \in Texts |->
        LET text_lower == TextLower(t)
        IN  [positive_count |-> CountKeywords(pipeline_positive_keywords, text_lower),
             negative_count |-> CountKeywords(pipeline_negative_keywords, text_lower)]]

AnalyzePipelineResult(t, r) ==
    IF r.kind = "raise" THEN DefaultResult
    ELSE
    LET positive_count == PipelineCounts[t].positive_count
        negative_count == PipelineCounts[t].negative_count
        v == PipelineVerdict(LabelLower(r.label), r.score, positive_count, negative_count)
    IN  [label       |-> v.sentiment,
         score       |-> r.score,
         temperature |-> Clamp(IntTimes100(r.score), 0, 100),
         image_path  |-> v.image]

\* ---- the analyzer as a state machine -----------------------------------
SentimentInit ==
    /\ analyzer \in {Construct(e) : e \in Environments}
    /\ sa_pc = "ready"
    /\ sa_text = <<>>
    /\ sa_reply = NoReply
    /\ sa_result = NoResult
    /\ app = NotCalled
    /\ english = NotCalled /\ crawl = NotCalled /\ fallback = NotCalled
    /\ cleaner = NotCalled /\ summarizer = NotCalled /\ search = NotCalled

\* no analyzer is constructed and analyze is not called
AnalyzerNotCalled ==
    /\ analyzer = [use_openai |-> FALSE, openai_client |-> FALSE,
                   use_finetuned_model |-> FALSE, classifier |-> FALSE]
    /\ sa_pc = "not called"
    /\ sa_text = <<>>
    /\ sa_reply = NoReply
    /\ sa_result = NoResult

\* and no request is served
SentimentNotCalled == AnalyzerNotCalled /\ app = NotCalled

Returns(t, reply, result) ==
    /\ sa_pc' = "done"
    /\ sa_text' = t
    /\ sa_reply' = reply
    /\ sa_result' = result
    /\ UNCHANGED <<analyzer, app, crawlerVars>>

UsesOpenAI == analyzer.use_openai /\ analyzer.openai_client
HasLocalModel == analyzer.classifier \/ analyzer.use_finetuned_model

\* analyze, lines 291-316
AnalyzeOpenAI ==
    /\ sa_pc = "ready"
    /\ UsesOpenAI
    /\ \E t \in Texts, reply \in LlmReplies : Returns(t, reply, AnalyzeExternal(reply))

\* analyze, lines 321-328
AnalyzeNoModel ==
    /\ sa_pc = "ready"
    /\ ~UsesOpenAI
    /\ ~HasLocalModel
    /\ \E t \in Texts : Returns(t, NoReply, DefaultResult)

\* analyze, lines 330-387, 408-629, 735-763
AnalyzeFinetuned ==
    /\ sa_pc = "ready"
    /\ ~UsesOpenAI
    /\ analyzer.use_finetuned_model
    /\ \E t \in Texts, reply \in FinetunedReplies :
          Returns(t, reply, AnalyzeFinetunedResult(t, reply))

\* analyze, lines 330-339, 389-398, 630-763
AnalyzePipeline ==
    /\ sa_pc = "ready"
    /\ ~UsesOpenAI
    /\ ~analyzer.use_finetuned_model
    /\ analyzer.classifier
    /\ \E t \in Texts, reply \in PipelineReplies :
          Returns(t, reply, AnalyzePipelineResult(t, reply))

SentimentNext == AnalyzeOpenAI \/ AnalyzeNoModel \/ AnalyzeFinetuned \/ AnalyzePipeline

SentimentSpec == SentimentInit /\ [][SentimentNext]_vars

(***************************************************************************)
(* Claims about the sentiment scorer                                       *)
(***************************************************************************)

\* C1: every result of analyze, on every backend and branch, has
\* temperature = clamp(round(score * 100), 0, 100).
C1_TemperatureIsRoundedScore ==
    sa_pc = "done" =>
        sa_result.temperature = Clamp(RoundTimes100(sa_result.score), 0, 100)

\* C2: the image key is a function of the label alone: positive, negative
\* and neutral each have one fixed image (the ones of the default result
\* and of the external branch).
C2_ImageKey(label) ==
    IF label = LabelPositive THEN "static/3.png"
    ELSE IF label = LabelNegative THEN "static/1.png"
    ELSE "static/2.png"

C2_ImageKeyIsFunctionOfLabel ==
    sa_pc = "done" => sa_result.image_path = C2_ImageKey(sa_result.label)

\* 교통사고로 숨졌다
C3_Phrase == <<"gyo","tong","sa","go","ro"," ","sum","jyeoss","da">>

\* C3 as stated: a text containing the phrase is scored negative with
\* temperature <= 20, whatever the classifier or the external backend
\* answers for it.
C3_AccidentAlwaysNegative ==
    ( /\ sa_pc = "done"
      /\ sa_reply.kind \in {"json", "probs", "pipe"}
      /\ Contains(Squash(sa_text), C3_Phrase) ) =>
        (sa_result.label = LabelNegative /\ sa_result.temperature <= 20)

\* C3 amended: on the fine-tuned local classifier (the external backend not
\* in use), when the classifier answers and the text it is given (the whole
\* text up to 2000 characters, else its first 1500 and last 500) contains
\* the phrase, the result is negative with temperature <= 20 whatever the
\* probabilities.
C3_AccidentNegativeOnFinetuned ==
    ( /\ sa_pc = "done"
      /\ ~(analyzer.use_openai /\ analyzer.openai_client)
      /\ analyzer.use_finetuned_model
      /\ sa_reply.kind = "probs"
      /\ Contains(Squash(TextForAnalysis(sa_text)), C3_Phrase) ) =>
        (sa_result.label = LabelNegative /\ sa_result.temperature <= 20)

\* a long article whose kept part holds the phrase, and a classifier sure
\* that it is positive
C3_Witness ==
    /\ sa_pc = "done"
    /\ ~(analyzer.use_openai /\ analyzer.openai_client)
    /\ analyzer.use_finetuned_model
    /\ sa_reply.kind = "probs" /\ sa_reply.pos = 1000
    /\ TextLen(sa_text) > LongTextLimit
    /\ Contains(Squash(TextForAnalysis(sa_text)), C3_Phrase)
    /\ sa_result.label = LabelNegative

\* C10: with no backend at all (no external client, no fine-tuned model,
\* no pipeline classifier), and when the local classifier raises, analyze
\* returns {neutral, 0.5, 50, neutral image}.
C10_NeutralDefault ==
    [label |-> LabelNeutral, score |-> 500, temperature |-> 50,
     image_path |-> "static/2.png"]

C10_DefaultWithoutBackend ==
    ( /\ sa_pc = "done"
      /\ \/ /\ ~analyzer.openai_client
            /\ ~analyzer.use_finetuned_model
            /\ ~analyzer.classifier
         \/ sa_reply.kind = "raise" ) =>
        sa_result = C10_NeutralDefault

C10_Witness ==
    /\ sa_pc = "done"
    /\ ~analyzer.openai_client /\ ~analyzer.use_finetuned_model /\ ~analyzer.classifier
    /\ Contains(Squash(sa_text), C3_Phrase)
    /\ sa_result = C10_NeutralDefault

(***************************************************************************)
(* Language filter: src/src/crawl_naver_api.py, _is_english_article        *)
(***************************************************************************)

\* str.strip(): white space removed at both ends
RECURSIVE LStrip(_)
LStrip(s) == IF s # <<>> /\ IsSpace(Head(s)) THEN LStrip(Tail(s)) ELSE s
RECURSIVE RStrip(_)
RStrip(s) ==
    IF s # <<>> /\ IsSpace(s[Len(s)]) THEN RStrip(SubSeq(s, 1, Len(s) - 1)) ELSE s
Strip(s) == LStrip(RStrip(s))

\* the cutoff itself counted as English
RatioAboveCutoff_Mutant(total_chars, without_spaces) ==
    10 * total_chars >= 7 * without_spaces

\* line 1635: english_ratio = total_chars / without_spaces > 0.7
RatioAboveCutoff(total_chars, without_spaces) ==
    10 * total_chars > 7 * without_spaces

\* lines 1615-1638
IsEnglishArticle(title, description, text) ==
    LET content == Strip(title \o <<" ">> \o description \o <<" ">> \o text)
        has_korean == \E i \in 1..Len(content) : IsHangul(content[i])
        \* len(re.findall(r'[a-zA-Z]', content))
        total_chars ==
            Cardinality({i \in 1..Len(content) : content[i] \in LatinLetters})
        \* len(content.split()): the runs of characters that are not white space
        total_words ==
            Cardinality({i \in 1..Len(content) :
                /\ ~IsSpace(content[i])
                /\ (i = 1 \/ IsSpace(content[i - 1]))})
        \* len(content.replace(' ', ''))
        without_spaces == Cardinality({i \in 1..Len(content) : content[i] # " "})
    IN  IF content = <<>> THEN FALSE
        ELSE IF has_korean THEN FALSE
        ELSE IF total_words = 0 THEN FALSE
        ELSE IF without_spaces > 0 /\ RatioAboveCutoff(total_chars, without_spaces)
                /\ ~has_korean
        THEN TRUE
        ELSE FALSE

\* The arguments tried: titles of up to MaxTitleWords words, and the two
\* titles of the specification's example.
MaxTitleWords == 2
TitleWords ==
    {
     <<"S","a","m","s","u","n","g">>,   \* Samsung
     <<"Q","3">>,   \* Q3
     <<"1","2","3">>,   \* 123
     <<"sam","seong","jeon","ja">>,   \* 삼성전자
     <<"p","r","o","f","i","t","!">>   \* profit!
    }
RECURSIVE JoinWords(_)
JoinWords(ws) ==
    IF ws = <<>> THEN <<>>
    ELSE IF Len(ws) = 1 THEN ws[1]
    ELSE ws[1] \o <<" ">> \o JoinWords(Tail(ws))
ExampleTitles ==
    {
     <<"S","a","m","s","u","n","g"," ","p","o","s","t","s"," ","r","e","c","o","r","d"," ","p","r","o","f","i","t"," ","i","n"," ","Q","3">>,   \* Samsung posts record profit in Q3
     <<"sam","seong","jeon","ja"," ","3","bun","gi"," ","gi","rog","jeog"," ","sil","jeog">>   \* 삼성전자 3분기 기록적 실적
    }
Titles ==
    {JoinWords(ws) : ws \in UNION {[1..n -> TitleWords] : n \in 0..MaxTitleWords}}
    \cup ExampleTitles
Descriptions ==
    {
     <<>>,   \* (empty)
     <<"r","e","c","o","r","d"," ","p","r","o","f","i","t">>,   \* record profit
     <<"gi","rog","jeog"," ","sil","jeog">>   \* 기록적 실적
    }
ArticleTexts ==
    {
     <<>>,   \* (empty)
     <<"\n">>,   \* \n
     <<"i","n"," ","Q","3","\n">>,   \* in Q3\n
     <<"2","0","2","4","\t","2","0","2","5","\n","Q","3">>   \* 2024\t2025\nQ3
    }

\* _is_english_article is called once
EnglishInit ==
    /\ english = [pc |-> "ready"]
    /\ SentimentNotCalled /\ search = NotCalled
    /\ crawl = NotCalled /\ fallback = NotCalled
    /\ cleaner = NotCalled /\ summarizer = NotCalled

IsEnglishArticleCall ==
    /\ english.pc = "ready"
    /\ \E title \in Titles, description \in Descriptions, text \in ArticleTexts :
          english' = [pc |-> "done", title |-> title, description |-> description,
                      text |-> text,
                      result |-> IsEnglishArticle(title, description, text)]
    /\ UNCHANGED <<sentimentVars, search, crawl, fallback, cleaner, summarizer>>

EnglishNext == IsEnglishArticleCall

EnglishSpec == EnglishInit /\ [][EnglishNext]_vars

(***************************************************************************)
(* Claims about the language filter                                        *)
(***************************************************************************)

MaxItems == 4
NoViewCount == -1
\* two publication times a day apart, as strptime parses them (line 1569)
PublishedDec9 == [year |-> 2025, month |-> 12, day |-> 9, hour |-> 10, minute |-> 0]
PublishedDec10 == [year |-> 2025, month |-> 12, day |-> 10, hour |-> 9, minute |-> 0]
ItemKinds ==
    {[view |-> 1, pubDate |-> PublishedDec9], [view |-> 5, pubDate |-> PublishedDec9],
     [view |-> 5, pubDate |-> PublishedDec10], [view |-> 20, pubDate |-> PublishedDec10],
     [view |-> NoViewCount, pubDate |-> PublishedDec9]}
SearchResults ==
    {[i \in 1..Len(ks) |->
            [link |-> i, view |-> ks[i].view, pubDate |-> ks[i].pubDate]] :
        ks \in UNION {[1..n -> ItemKinds] : n \in 0..MaxItems}}

\* strftime's %m, %d, %H, %M: two digits; %Y: four
DigitChar(d) == <<"0", "1", "2", "3", "4", "5", "6", "7", "8", "9">>[d + 1]
Pad2(n) == <<DigitChar(n \div 10), DigitChar(n % 10)>>
Pad4(n) == Pad2(n \div 100) \o Pad2(n % 100)

\* lines 1592 and 1594: re.sub(r'0(\d)월', r'\1월', ...) and the same for
\* 일, on the two digits that stand before 월 or 일
ZeroStripped(two) == IF two[1] = "0" THEN <<two[2]>> ELSE two

\* _format_date_korean on a date it parsed, lines 1589-1596:
\* "2025년 12월 9일 10:00"
FormatDateKorean(d) ==
    Pad4(d.year) \o <<"nyeon", " ">>              \* 년
    \o ZeroStripped(Pad2(d.month)) \o <<"qwol", " ">>   \* 월
    \o ZeroStripped(Pad2(d.day)) \o <<"qil", " ">>      \* 일
    \o Pad2(d.hour) \o <<":">> \o Pad2(d.minute)

\* the code points of the characters of a formatted date: Python orders
\* strings by them
CodePoint(c) ==
    CASE c = " " -> 32
      [] c = ":" -> 58
      [] c = "nyeon" -> 45380
      [] c = "qwol" -> 50900
      [] c = "qil" -> 51068
      [] OTHER -> 48 + CHOOSE d \in 0..9 : DigitChar(d) = c

\* the sort key of lines 1528 and 1531 as a sequence of integers: the view
\* count, or the date string
SortKey(r, key) ==
    IF key = "pubDate"
    THEN [i \in 1..Len(r.pubDate) |-> CodePoint(r.pubDate[i])]
    ELSE <<r[key]>>

\* a >= b as Python compares strings, and numbers
RECURSIVE GreaterOrEqual(_, _)
GreaterOrEqual(a, b) ==
    IF b = <<>> THEN TRUE
    ELSE IF a = <<>> THEN FALSE
    ELSE IF Head(a) # Head(b) THEN Head(a) > Head(b)
    ELSE GreaterOrEqual(Tail(a), Tail(b))

\* a sort that puts a record before the records with an equal key
RECURSIVE InsertDescending_Mutant(_, _, _)
InsertDescending_Mutant(sorted, r, key) ==
    IF sorted = <<>> THEN <<r>>
    ELSE IF ~ GreaterOrEqual(SortKey(r, key), SortKey(Head(sorted), key))
    THEN <<Head(sorted)>> \o InsertDescending_Mutant(Tail(sorted), r, key)
    ELSE <<r>> \o sorted

\* list.sort(key=..., reverse=True), lines 1528 and 1531: descending by
\* key, records with equal keys staying in the order they had.
RECURSIVE InsertDescending(_, _, _)
InsertDescending(sorted, r, key) ==
    IF sorted = <<>> THEN <<r>>
    ELSE IF GreaterOrEqual(SortKey(Head(sorted), key), SortKey(r, key))
    THEN <<Head(sorted)>> \o InsertDescending(Tail(sorted), r, key)
    ELSE <<r>> \o sorted
RECURSIVE SortDescending(_, _)
SortDescending(rs, key) ==
    IF rs = <<>> THEN <<>>
    ELSE InsertDescending(SortDescending(SubSeq(rs, 1, Len(rs) - 1), key),
                          rs[Len(rs)], key)

\* The external requests of a call and the time.sleep(self.delay) calls
\* between them, in the order they happen.  search_news sleeps after a page
\* it received (line 127), and a search that brought items ended on such a
\* page.
LastSearchEvents == <<"search page fetch", "delay">>

\* lines 1481-1484 and 1486-1509: what one turn of the loop requests and
\* where it sleeps.  extract_view_count gives None when the request failed
\* or the page shows no count (215-280), and the sleep that follows it is
\* under 'if view_count is not None'; the sleep after extract_full_text is
\* unconditional.
EventsOfItem(item, include_full_text) ==
    <<"view-count fetch">>
    \o (IF item.view # NoViewCount THEN <<"delay">> ELSE <<>>)
    \o (IF include_full_text THEN <<"full-text fetch", "delay">> ELSE <<>>)

\* lines 1430-1443: the call and the search; at most items_to_fetch items
\* come back
CrawlInit ==
    /\ \E sort_by \in {"date", "view", "sim"}, max_results \in 1..MaxItems,
          include_full_text \in BOOLEAN, items \in SearchResults :
          /\ Len(items) <= (IF include_full_text THEN max_results * 2 ELSE max_results)
          /\ crawl = [pc |-> IF items = <<>> THEN "sort" ELSE "loop",
                      sort_by |-> sort_by, max_results |-> max_results,
                      include_full_text |-> include_full_text,
                      items |-> items, processed |-> <<>>, results |-> <<>>,
                      events |-> LastSearchEvents]
    /\ SentimentNotCalled /\ search = NotCalled
    /\ english = NotCalled /\ fallback = NotCalled
    /\ cleaner = NotCalled /\ summarizer = NotCalled

\* line 1522, with a break one result too late
EnoughResults_Mutant(results, max_results) == Len(results) > max_results

\* line 1522: if len(results) >= max_results: break
EnoughResults(results, max_results) == Len(results) >= max_results

\* lines 1446-1523: one turn of the loop over the items
ProcessItem ==
    /\ crawl.pc = "loop"
    /\ LET item == Head(crawl.items)
           result == [link |-> item.link,
                      pubDate |-> FormatDateKorean(item.pubDate),
                      view_count |-> IF item.view # NoViewCount THEN item.view ELSE 0]
           results == Append(crawl.results, result)
       IN  crawl' = [crawl EXCEPT
                        !.items = Tail(crawl.items),
                        !.processed = Append(crawl.processed, item),
                        !.results = results,
                        !.events = @ \o EventsOfItem(item, crawl.include_full_text),
                        !.pc = IF EnoughResults(results, crawl.max_results)
                                  \/ Tail(crawl.items) = <<>>
                               THEN "sort" ELSE "loop"]
    /\ UNCHANGED <<sentimentVars, search, english, fallback, cleaner, summarizer>>

CrawlReturns(results) ==
    /\ crawl' = [crawl EXCEPT !.pc = "done", !.results = results]
    /\ UNCHANGED <<sentimentVars, search, english, fallback, cleaner, summarizer>>

\* lines 1526-1528
SortByView ==
    /\ crawl.pc = "sort"
    /\ crawl.sort_by = "view"
    /\ CrawlReturns(SortDescending(crawl.results, "view_count"))

\* lines 1529-1531
SortByDate ==
    /\ crawl.pc = "sort"
    /\ crawl.sort_by = "date"
    /\ CrawlReturns(SortDescending(crawl.results, "pubDate"))

\* line 1533, sort_by neither 'view' nor 'date'
ReturnUnsorted ==
    /\ crawl.pc = "sort"
    /\ crawl.sort_by \notin {"view", "date"}
    /\ CrawlReturns(crawl.results)

\* the fields of a raw item whose JSON value may be null: item.get(key, '')
\* gives None for them, and lines 1452 and 1461 call .replace on it
ReplacedFields == {"title", "description"}

\* lines 1446-1461: the item at hand has null for its title or description;
\* the AttributeError leaves the loop and the function, neither has a try
MalformedItemRaises ==
    /\ crawl.pc = "loop"
    /\ \E field \in ReplacedFields :
          crawl' = [crawl EXCEPT !.pc = "raised"]
                      @@ [error |-> "AttributeError", field |-> field]
    /\ UNCHANGED <<sentimentVars, search, english, fallback, cleaner, summarizer>>

CrawlNext ==
    ProcessItem \/ MalformedItemRaises \/ SortByView \/ SortByDate \/ ReturnUnsorted

CrawlSpec == CrawlInit /\ [][CrawlNext]_vars

(***************************************************************************)
(* Claims about the crawl assembly                                         *)
(***************************************************************************)

\* C9: with sort_by = "view" the records returned are in non-increasing
\* view-count order and records with equal view counts keep the order in
\* which they were collected; view counts 5, 20, 5, 1 come back as 20, 5,
\* 5, 1 with the first 5 before the second.
C9_ViewSortStable ==
    (crawl.pc = "done" /\ crawl.sort_by = "view") =>
        LET rs == crawl.results
        IN  /\ Len(rs) = Len(crawl.processed)
            /\ {rs[i].link : i \in 1..Len(rs)}
                  = {crawl.processed[i].link : i \in 1..Len(crawl.processed)}
            /\ \A i, j \in 1..Len(rs) :
                  i < j => \/ rs[i].view_count > rs[j].view_count
                           \/ /\ rs[i].view_count = rs[j].view_count
                              /\ rs[i].link < rs[j].link
            /\ [i \in 1..Len(crawl.processed) |-> crawl.processed[i].view] = <<5, 20, 5, 1>>
                  => [i \in 1..Len(rs) |-> rs[i].link] = <<2, 1, 3, 4>>

\* the example: 5, 20, 5, 1 collected and returned as 20, 5, 5, 1
C9_Witness ==
    /\ crawl.pc = "done"
    /\ crawl.sort_by = "view"
    /\ [i \in 1..Len(crawl.processed) |-> crawl.processed[i].view] = <<5, 20, 5, 1>>
    /\ [i \in 1..Len(crawl.results) |-> crawl.results[i].view_count] = <<20, 5, 5, 1>>
    /\ [i \in 1..Len(crawl.results) |-> crawl.results[i].link] = <<2, 1, 3, 4>>

(***************************************************************************)
(* Truncation fallback: src/src/crawl_naver_api.py, _fallback_summarize    *)
(***************************************************************************)

\* str.rfind(c): the last place of c counted from 0, -1 when absent
RFind(s, c) ==
    LET places == {i \in 1..Len(s) : s[i] = c}
    IN  IF places = {} THEN -1 ELSE (CHOOSE i \in places : \A j \in places : j <= i) - 1

\* lines 1097-1104 and 1116-1123: max of the rfind of . ! ? and their
\* full-width forms
LastPunct(s) ==
    LET found == {RFind(s, c) : c \in {".", "!", "?", "U+3002", "U+FF01", "U+FF1F"}}
    IN  CHOOSE p \in found : \A q \in found : q <= p

\* the hard cut with nothing appended
Ellipsis_Mutant == <<>>

\* lines 1127 and 1130: '...'
Ellipsis == <<".", ".", ".">>

\* lines 1086-1131; branch names the return taken
FallbackSummarize(text_arg, max_length) ==
    LET text == Strip(text_arg)
        summary == SubSeq(text, 1, max_length)
        last_punct == LastPunct(summary)
        last_space == RFind(summary, " ")
        at_space == SubSeq(summary, 1, last_space)
        last_punct_in_summary == LastPunct(at_space)
    IN  IF Len(text) <= max_length
        THEN [branch |-> "whole", summary |-> text]
        \* last_punct > max_length * 0.5
        ELSE IF 2 * last_punct > max_length
        THEN [branch |-> "punctuation", summary |-> SubSeq(summary, 1, last_punct + 1)]
        \* last_space > max_length * 0.7
        ELSE IF 10 * last_space > 7 * max_length
        THEN \* last_punct_in_summary > len(summary) * 0.5
             IF 2 * last_punct_in_summary > Len(at_space)
             THEN [branch |-> "space, punctuation",
                   summary |-> SubSeq(at_space, 1, last_punct_in_summary + 1)]
             ELSE [branch |-> "space", summary |-> at_space \o Ellipsis]
        ELSE [branch |-> "hard cut", summary |-> summary \o Ellipsis]

\* The texts tried: up to three runs of the syllable 가, a space or a full
\* stop between them, white space in front, a full stop at the end.
RunLengths == {0, 17, 22, 200}
Run(n) == [i \in 1..n |-> "ga"]   \* 가 n times
FallbackTexts ==
    {pre \o Run(a) \o s1 \o Run(b) \o s2 \o Run(c) \o end :
        pre \in {<<>>, <<" ">>}, a \in RunLengths, b \in RunLengths, c \in RunLengths,
        s1 \in {<<>>, <<" ">>, <<".">>}, s2 \in {<<>>, <<" ">>, <<".">>},
        end \in {<<>>, <<".">>}}
\* max_length: the default of summarize_text, and of _fallback_summarize
MaxLengths == {50, 300}

FallbackInit ==
    /\ fallback = [pc |-> "ready"]
    /\ SentimentNotCalled /\ search = NotCalled
    /\ english = NotCalled /\ crawl = NotCalled
    /\ cleaner = NotCalled /\ summarizer = NotCalled

FallbackReturns(text, max_length) ==
    LET r == FallbackSummarize(text, max_length)
    IN  /\ fallback' = [pc |-> "done", text |-> text, max_length |-> max_length,
                        branch |-> r.branch, summary |-> r.summary]
        /\ UNCHANGED <<sentimentVars, search, english, crawl, cleaner, summarizer>>

\* lines 1088-1089
FallbackWholeText ==
    /\ fallback.pc = "ready"
    /\ \E text \in FallbackTexts, max_length \in MaxLengths :
          /\ FallbackSummarize(text, max_length).branch = "whole"
          /\ FallbackReturns(text, max_length)

\* lines 1107-1108
FallbackCutAtPunctuation ==
    /\ fallback.pc = "ready"
    /\ \E text \in FallbackTexts, max_length \in MaxLengths :
          /\ FallbackSummarize(text, max_length).branch = "punctuation"
          /\ FallbackReturns(text, max_length)

\* lines 1111-1125
FallbackCutAtSpaceThenPunctuation ==
    /\ fallback.pc = "ready"
    /\ \E text \in FallbackTexts, max_length \in MaxLengths :
          /\ FallbackSummarize(text, max_length).branch = "space, punctuation"
          /\ FallbackReturns(text, max_length)

\* lines 1111-1127
FallbackCutAtSpace ==
    /\ fallback.pc = "ready"
    /\ \E text \in FallbackTexts, max_length \in MaxLengths :
          /\ FallbackSummarize(text, max_length).branch = "space"
          /\ FallbackReturns(text, max_length)

\* lines 1128-1130
FallbackHardCut ==
    /\ fallback.pc = "ready"
    /\ \E text \in FallbackTexts, max_length \in MaxLengths :
          /\ FallbackSummarize(text, max_length).branch = "hard cut"
          /\ FallbackReturns(text, max_length)

FallbackNext ==
    \/ FallbackWholeText
    \/ FallbackCutAtPunctuation
    \/ FallbackCutAtSpaceThenPunctuation
    \/ FallbackCutAtSpace
    \/ FallbackHardCut

FallbackSpec == FallbackInit /\ [][FallbackNext]_vars

(***************************************************************************)
(* Claims about the truncation fallback                                    *)
(***************************************************************************)

\* 가 200 times, then a full stop
C6_Input == Run(200) \o <<".">>
C6_EndsInTerminatorOrEllipsis(s) ==
    /\ s # <<>>
    /\ \/ s[Len(s)] \in {".", "!", "?", "U+3002", "U+FF01", "U+FF1F", "U+2026"}
       \/ (Len(s) >= 3 /\ SubSeq(s, Len(s) - 2, Len(s)) = <<".", ".", ".">>)

\* C6 as stated: on 가 200 times followed by a full stop, with max_length
\* 50, the fallback returns at most 51 characters, ending in the sentence
\* terminator or in an ellipsis marker.
C6_AtMost51 ==
    (fallback.pc = "done" /\ fallback.text = C6_Input /\ fallback.max_length = 50) =>
        /\ Len(fallback.summary) <= 51
        /\ C6_EndsInTerminatorOrEllipsis(fallback.summary)

\* C6 amended: on that input the fallback returns at most 53 characters
\* (max_length and the three characters of '...'), ending in the sentence
\* terminator or in an ellipsis marker.
C6_AtMost53 ==
    (fallback.pc = "done" /\ fallback.text = C6_Input /\ fallback.max_length = 50) =>
        /\ Len(fallback.summary) <= 53
        /\ C6_EndsInTerminatorOrEllipsis(fallback.summary)

\* the input of the claim, hard cut at 50 characters and '...' appended
C6_Witness ==
    /\ fallback.pc = "done"
    /\ fallback.text = C6_Input
    /\ fallback.max_length = 50
    /\ fallback.branch = "hard cut"
    /\ fallback.summary = Run(50) \o <<".", ".", ".">>

(***************************************************************************)
(* Python's re module on sequences of characters, as far as the patterns   *)
(* of src/src/crawl_naver_api.py use it.  A pattern is a tree; Ends gives  *)
(* the places where a match starting at place i may end, in the order the  *)
(* backtracking matcher tries them (greedy first), so that its head is the *)
(* match re takes.  Places count the characters before them, from 0.       *)
(***************************************************************************)
Lit(s) == [op |-> "lit", s |-> s]                 \* the characters of s
OneOf(chars, classes) ==                          \* [...]
    [op |-> "set", chars |-> chars, classes |-> classes, neg |-> FALSE]
NoneOf(chars, classes) ==                         \* [^...], also . and \S
    [op |-> "set", chars |-> chars, classes |-> classes, neg |-> TRUE]
Cat(rs) == [op |-> "cat", rs |-> rs]              \* r1 r2 ...
Alt(rs) == [op |-> "alt", rs |-> rs]              \* r1|r2|...
Star(r) == [op |-> "star", r |-> r]               \* r*
Plus(r) == Cat(<<r, Star(r)>>)                    \* r+
Opt(r) == Alt(<<r, Lit(<<>>)>>)                   \* r?
AtLeast(n, r) == Cat([k \in 1..n |-> r] \o <<Star(r)>>)   \* r{n,}
Bol == [op |-> "bol"]                             \* ^
Eol == [op |-> "eol"]                             \* $
WordEdge == [op |-> "edge"]                       \* \b
Dot == NoneOf({"\n"}, {})                         \* .

\* flags: IGNORECASE and MULTILINE
Plain == [ic |-> FALSE, ml |-> FALSE]
IgnoreCase == [ic |-> TRUE, ml |-> FALSE]
IgnoreCaseMultiline == [ic |-> TRUE, ml |-> TRUE]

\* \w
IsWord(c) == IsHangul(c) \/ c \in LatinLetters \/ c \in Digits \/ c = "_"

InSet(c, r, ic) ==
    \/ c \in r.chars
    \/ ic /\ Lower(c) \in {Lower(x) : x \in r.chars}
    \/ "hangul" \in r.classes /\ IsHangul(c)
    \/ "latin" \in r.classes /\ c \in LatinLetters
    \/ "digit" \in r.classes /\ c \in Digits
    \/ "space" \in r.classes /\ IsSpace(c)

\* a sequence without the later repetitions of its elements
Distinct(q) ==
    IF Len(q) <= 1 THEN q ELSE
    LET keep == {i \in 1..Len(q) : \A j \in 1..(i - 1) : q[j] # q[i]}
    IN  [k \in 1..Cardinality(keep) |->
            q[CHOOSE i \in keep : Cardinality({j \in keep : j <= i}) = k]]

RECURSIVE Ends(_, _, _, _)
RECURSIVE EndsAll(_, _, _, _)
Ends(r, s, i, f) ==
    CASE r.op = "lit" ->
            IF /\ i + Len(r.s) <= Len(s)
               /\ \A k \in 1..Len(r.s) :
                     \/ s[i + k] = r.s[k]
                     \/ f.ic /\ Lower(s[i + k]) = Lower(r.s[k])
            THEN <<i + Len(r.s)>> ELSE <<>>
      [] r.op = "set" ->
            IF i < Len(s) /\ (InSet(s[i + 1], r, f.ic) # r.neg)
            THEN <<i + 1>> ELSE <<>>
      [] r.op = "cat" -> EndsAll(r.rs, s, <<i>>, f)
      [] r.op = "alt" ->
            Distinct(Concat([k \in 1..Len(r.rs) |-> Ends(r.rs[k], s, i, f)]))
      [] r.op = "star" ->
            IF r.r.op = "set" \/ (r.r.op = "lit" /\ Len(r.r.s) = 1)
            THEN \* one character at a time: the longest run first
                 LET stops == {k \in 1..(Len(s) - i) : Ends(r.r, s, i + k - 1, f) = <<>>}
                     most == IF stops = {} THEN Len(s) - i
                             ELSE (CHOOSE k \in stops : \A j \in stops : k <= j) - 1
                 IN  [k \in 1..(most + 1) |-> i + most + 1 - k]
            ELSE Distinct(EndsAll(<<r>>, s, SelectSeq(Ends(r.r, s, i, f), LAMBDA e : e > i), f)
                          \o <<i>>)
      [] r.op = "bol" ->
            IF i = 0 \/ (f.ml /\ s[i] = "\n") THEN <<i>> ELSE <<>>
      [] r.op = "eol" ->
            IF \/ i = Len(s)
               \/ (i = Len(s) - 1 /\ s[Len(s)] = "\n")
               \/ (f.ml /\ s[i + 1] = "\n")
            THEN <<i>> ELSE <<>>
      [] r.op = "edge" ->
            IF (i > 0 /\ IsWord(s[i])) # (i < Len(s) /\ IsWord(s[i + 1]))
            THEN <<i>> ELSE <<>>
\* the ends of the patterns rs, one after the other, from each of the starts
EndsAll(rs, s, starts, f) ==
    IF rs = <<>> \/ starts = <<>> THEN starts
    ELSE IF Len(starts) = 1
    THEN EndsAll(Tail(rs), s, Ends(Head(rs), s, starts[1], f), f)
    ELSE EndsAll(Tail(rs), s,
                 Distinct(Concat([k \in 1..Len(starts) |->
                                     Ends(Head(rs), s, starts[k], f)])), f)

\* re.search(r, s, flags) is not None
Found(r, s, f) == \E i \in 0..Len(s) : Ends(r, s, i, f) # <<>>
\* re.match(r, s, flags) is not None
Matches(r, s, f) == Ends(r, s, 0, f) # <<>>

\* re.sub on the characters after the places lo..hi-1, for a pattern that
\* matches no empty string and a replacement without group references: what
\* is written for them when the scan stands at place p, and where the scan
\* stands afterwards
RECURSIVE SubIn(_, _, _, _, _, _, _)
SubIn(r, repl, s, lo, hi, p, f) ==
    IF hi - lo = 1
    THEN IF p > lo THEN [out |-> <<>>, p |-> p]
         ELSE LET e == Ends(r, s, lo, f)
              IN  IF e # <<>> /\ Head(e) > lo
                  THEN [out |-> repl, p |-> Head(e)]
                  ELSE [out |-> <<s[lo + 1]>>, p |-> lo + 1]
    ELSE LET mid == (lo + hi) \div 2
             left == SubIn(r, repl, s, lo, mid, p, f)
             right == SubIn(r, repl, s, mid, hi, left.p, f)
         IN  [out |-> left.out \o right.out, p |-> right.p]
\* re.sub(r, repl, s, flags=f)
Sub(r, repl, s, f) ==
    IF s = <<>> THEN s ELSE SubIn(r, repl, s, 0, Len(s), 0, f).out

\* str.split('\n')
SplitLines(s) ==
    LET nl == {i \in 1..Len(s) : s[i] = "\n"}
        \* the place of the k-th line break; 0 and Len(s) + 1 around them
        at(k) == IF k = 0 THEN 0
                 ELSE IF k > Cardinality(nl) THEN Len(s) + 1
                 ELSE CHOOSE i \in nl : Cardinality({j \in nl : j <= i}) = k
    IN  [k \in 1..(Cardinality(nl) + 1) |-> SubSeq(s, at(k - 1) + 1, at(k) - 1)]
\* '\n'.join(lines)
JoinLines(ls) ==
    Concat([k \in 1..(2 * Len(ls) - 1) |->
               IF k % 2 = 1 THEN ls[(k + 1) \div 2] ELSE <<"\n">>])

(***************************************************************************)
(* NaverNewsAPICrawler._clean_article_text (src/src/crawl_naver_api.py     *)
(* lines 719-1018): the caption substitutions, the line filter, the        *)
(* substitutions on the joined text and the cut at the first byline.       *)
(***************************************************************************)
\* re.sub of each entry of subs in turn (none of the patterns matches in
\* the empty string)
RECURSIVE SubAll(_, _)
SubAll(subs, s) ==
    IF s = <<>> \/ subs = <<>> THEN s
    ELSE IF Len(subs) = 1
    THEN Sub(subs[1].r, subs[1].repl, s, subs[1].f)
    ELSE LET half == Len(subs) \div 2
         IN  SubAll(SubSeq(subs, half + 1, Len(subs)),
                    SubAll(SubSeq(subs, 1, half), s))

\* lines 728-733: hashtags and captions without brackets
InlineSubs ==
    <<
     \* line 728: r'#\S+' -> ''
     [r |-> Cat(<<Lit(<<"#">>), Plus(NoneOf({}, {"space"}))>>),
      repl |-> <<>>, f |-> Plain],
     \* line 731: r'사진\s*[=:]\s*[가-힣a-zA-Z\s]+' -> ''
     [r |-> Cat(<<Lit(<<"sa","jin">>), Star(OneOf({}, {"space"})), OneOf({"=", ":"}, {}), Star(OneOf({},
            {"space"})), Plus(OneOf({}, {"hangul", "latin", "space"}))>>),
      repl |-> <<>>, f |-> IgnoreCase],
     \* line 732: r'그림\s*[=:]\s*[가-힣a-zA-Z\s]+' -> ''
     [r |-> Cat(<<Lit(<<"geu","rim">>), Star(OneOf({}, {"space"})), OneOf({"=", ":"}, {}), Star(OneOf({},
            {"space"})), Plus(OneOf({}, {"hangul", "latin", "space"}))>>),
      repl |-> <<>>, f |-> IgnoreCase],
     \* line 733: r'표\s*[=:]\s*[가-힣a-zA-Z\s]+' -> ''
     [r |-> Cat(<<Lit(<<"pyo">>), Star(OneOf({}, {"space"})), OneOf({"=", ":"}, {}), Star(OneOf({},
            {"space"})), Plus(OneOf({}, {"hangul", "latin", "space"}))>>),
      repl |-> <<>>, f |-> IgnoreCase]
    >>

\* lines 739-795, each tried with re.match and re.IGNORECASE
skip_patterns ==
    <<
     \* line 740: r'^\[사진[=:]'
     Cat(<<Bol, Lit(<<"[","sa","jin">>), OneOf({"=", ":"}, {})>>),
     \* line 741: r'^\[그림[=:]'
     Cat(<<Bol, Lit(<<"[","geu","rim">>), OneOf({"=", ":"}, {})>>),
     \* line 742: r'^\[표[=:]'
     Cat(<<Bol, Lit(<<"[","pyo">>), OneOf({"=", ":"}, {})>>),
     \* line 743: r'^\[캡션[=:]'
     Cat(<<Bol, Lit(<<"[","kaeb","syeon">>), OneOf({"=", ":"}, {})>>),
     \* line 744: r'^\[.*사진.*\]'
     Cat(<<Bol, Lit(<<"[">>), Star(Dot), Lit(<<"sa","jin">>), Star(Dot), Lit(<<"]">>)>>),
     \* line 745: r'^\[.*그림.*\]'
     Cat(<<Bol, Lit(<<"[">>), Star(Dot), Lit(<<"geu","rim">>), Star(Dot), Lit(<<"]">>)>>),
     \* line 746: r'^\[.*표.*\]'
     Cat(<<Bol, Lit(<<"[">>), Star(Dot), Lit(<<"pyo">>), Star(Dot), Lit(<<"]">>)>>),
     \* line 747: r'^\[.*캡션.*\]'
     Cat(<<Bol, Lit(<<"[">>), Star(Dot), Lit(<<"kaeb","syeon">>), Star(Dot), Lit(<<"]">>)>>),
     \* line 748: r'^관련\s*기사'
     Cat(<<Bol, Lit(<<"gwan","ryeon">>), Star(OneOf({}, {"space"})), Lit(<<"gi","sa">>)>>),
     \* line 749: r'^댓글'
     Cat(<<Bol, Lit(<<"daes","geul">>)>>),
     \* line 750: r'^기자\s*[=:]'
     Cat(<<Bol, Lit(<<"gi","ja">>), Star(OneOf({}, {"space"})), OneOf({"=", ":"}, {})>>),
     \* line 751: r'^제보'
     Cat(<<Bol, Lit(<<"je","bo">>)>>),
     \* line 752: r'^Copyright'
     Cat(<<Bol, Lit(<<"C","o","p","y","r","i","g","h","t">>)>>),
     \* line 753: r'^©'
     Cat(<<Bol, Lit(<<"U+00A9">>)>>),
     \* line 754: r'^무단\s*전재'
     Cat(<<Bol, Lit(<<"mu","dan">>), Star(OneOf({}, {"space"})), Lit(<<"jeon","jae">>)>>),
     \* line 755: r'^재배포\s*금지'
     Cat(<<Bol, Lit(<<"jae","bae","po">>), Star(OneOf({}, {"space"})), Lit(<<"geum","ji">>)>>),
     \* line 756: r'^기사\s*제보'
     Cat(<<Bol, Lit(<<"gi","sa">>), Star(OneOf({}, {"space"})), Lit(<<"je","bo">>)>>),
     \* line 757: r'^이\s*기사'
     Cat(<<Bol, Lit(<<"qi">>), Star(OneOf({}, {"space"})), Lit(<<"gi","sa">>)>>),
     \* line 758: r'^기사\s*내용'
     Cat(<<Bol, Lit(<<"gi","sa">>), Star(OneOf({}, {"space"})), Lit(<<"nae","qyong">>)>>),
     \* line 759: r'^\[.*기자.*\]'
     Cat(<<Bol, Lit(<<"[">>), Star(Dot), Lit(<<"gi","ja">>), Star(Dot), Lit(<<"]">>)>>),
     \* line 760: r'^.*@.*\.(com|kr|net)'
     Cat(<<Bol, Star(Dot), Lit(<<"@">>), Star(Dot), Lit(<<".">>), Alt(<<Lit(<<"c","o","m">>),
     Lit(<<"k","r">>), Lit(<<"n","e","t">>)>>)>>),
     \* line 761: r'^.*기자.*='
     Cat(<<Bol, Star(Dot), Lit(<<"gi","ja">>), Star(Dot), Lit(<<"=">>)>>),
     \* line 762: r'^.*특파원.*='
     Cat(<<Bol, Star(Dot), Lit(<<"teug","pa","qwon">>), Star(Dot), Lit(<<"=">>)>>),
     \* line 763: r'^.*인턴기자.*='
     Cat(<<Bol, Star(Dot), Lit(<<"qin","teon","gi","ja">>), Star(Dot), Lit(<<"=">>)>>),
     \* line 764: r'^.*기자.*기자'
     Cat(<<Bol, Star(Dot), Lit(<<"gi","ja">>), Star(Dot), Lit(<<"gi","ja">>)>>),
     \* line 765: r'^.*기자.*특파원'
     Cat(<<Bol, Star(Dot), Lit(<<"gi","ja">>), Star(Dot), Lit(<<"teug","pa","qwon">>)>>),
     \* line 766: r'^.*기자.*인턴'
     Cat(<<Bol, Star(Dot), Lit(<<"gi","ja">>), Star(Dot), Lit(<<"qin","teon">>)>>),
     \* line 767: r'^.*기자.*=.*기자'
     Cat(<<Bol, Star(Dot), Lit(<<"gi","ja">>), Star(Dot), Lit(<<"=">>), Star(Dot),
     Lit(<<"gi","ja">>)>>),
     \* line 768: r'^.*기자.*=.*특파원'
     Cat(<<Bol, Star(Dot), Lit(<<"gi","ja">>), Star(Dot), Lit(<<"=">>), Star(Dot),
     Lit(<<"teug","pa","qwon">>)>>),
     \* line 769: r'^.*기자.*=.*인턴'
     Cat(<<Bol, Star(Dot), Lit(<<"gi","ja">>), Star(Dot), Lit(<<"=">>), Star(Dot),
     Lit(<<"qin","teon">>)>>),
     \* line 770: r'^.*기자.*=.*='
     Cat(<<Bol, Star(Dot), Lit(<<"gi","ja">>), Star(Dot), Lit(<<"=">>), Star(Dot), Lit(<<"=">>)>>),
     \* line 771: r'^.*기자.*기자.*='
     Cat(<<Bol, Star(Dot), Lit(<<"gi","ja">>), Star(Dot), Lit(<<"gi","ja">>), Star(Dot),
     Lit(<<"=">>)>>),
     \* line 772: r'^.*기자.*특파원.*='
     Cat(<<Bol, Star(Dot), Lit(<<"gi","ja">>), Star(Dot), Lit(<<"teug","pa","qwon">>), Star(Dot),
     Lit(<<"=">>)>>),
     \* line 773: r'^.*기자.*인턴.*='
     Cat(<<Bol, Star(Dot), Lit(<<"gi","ja">>), Star(Dot), Lit(<<"qin","teon">>), Star(Dot),
     Lit(<<"=">>)>>),
     \* line 774: r'^.*기자.*=.*=.*기자'
     Cat(<<Bol, Star(Dot), Lit(<<"gi","ja">>), Star(Dot), Lit(<<"=">>), Star(Dot), Lit(<<"=">>),
     Star(Dot), Lit(<<"gi","ja">>)>>),
     \* line 775: r'^.*기자.*=.*=.*특파원'
     Cat(<<Bol, Star(Dot), Lit(<<"gi","ja">>), Star(Dot), Lit(<<"=">>), Star(Dot), Lit(<<"=">>),
     Star(Dot), Lit(<<"teug","pa","qwon">>)>>),
     \* line 776: r'^.*기자.*=.*=.*인턴'
     Cat(<<Bol, Star(Dot), Lit(<<"gi","ja">>), Star(Dot), Lit(<<"=">>), Star(Dot), Lit(<<"=">>),
     Star(Dot), Lit(<<"qin","teon">>)>>),
     \* line 777: r'^.*기자.*=.*=.*='
     Cat(<<Bol, Star(Dot), Lit(<<"gi","ja">>), Star(Dot), Lit(<<"=">>), Star(Dot), Lit(<<"=">>),
     Star(Dot), Lit(<<"=">>)>>),
     \* line 778: r'^.*기자.*기자.*=.*='
     Cat(<<Bol, Star(Dot), Lit(<<"gi","ja">>), Star(Dot), Lit(<<"gi","ja">>), Star(Dot), Lit(<<"=">>),
     Star(Dot), Lit(<<"=">>)>>),
     \* line 779: r'^.*기자.*특파원.*=.*='
     Cat(<<Bol, Star(Dot), Lit(<<"gi","ja">>), Star(Dot), Lit(<<"teug","pa","qwon">>), Star(Dot),
     Lit(<<"=">>), Star(Dot), Lit(<<"=">>)>>),
     \* line 780: r'^.*기자.*인턴.*=.*='
     Cat(<<Bol, Star(Dot), Lit(<<"gi","ja">>), Star(Dot), Lit(<<"qin","teon">>), Star(Dot),
     Lit(<<"=">>), Star(Dot), Lit(<<"=">>)>>),
     \* line 781: r'^.*기자.*=.*=.*=.*기자'
     Cat(<<Bol, Star(Dot), Lit(<<"gi","ja">>), Star(Dot), Lit(<<"=">>), Star(Dot), Lit(<<"=">>),
     Star(Dot), Lit(<<"=">>), Star(Dot), Lit(<<"gi","ja">>)>>),
     \* line 782: r'^.*기자.*=.*=.*=.*특파원'
     Cat(<<Bol, Star(Dot), Lit(<<"gi","ja">>), Star(Dot), Lit(<<"=">>), Star(Dot), Lit(<<"=">>),
     Star(Dot), Lit(<<"=">>), Star(Dot), Lit(<<"teug","pa","qwon">>)>>),
     \* line 783: r'^.*기자.*=.*=.*=.*인턴'
     Cat(<<Bol, Star(Dot), Lit(<<"gi","ja">>), Star(Dot), Lit(<<"=">>), Star(Dot), Lit(<<"=">>),
     Star(Dot), Lit(<<"=">>), Star(Dot), Lit(<<"qin","teon">>)>>),
     \* line 784: r'^.*기자.*=.*=.*=.*='
     Cat(<<Bol, Star(Dot), Lit(<<"gi","ja">>), Star(Dot), Lit(<<"=">>), Star(Dot), Lit(<<"=">>),
     Star(Dot), Lit(<<"=">>), Star(Dot), Lit(<<"=">>)>>),
     \* line 785: r'^.*기자.*기자.*=.*=.*='
     Cat(<<Bol, Star(Dot), Lit(<<"gi","ja">>), Star(Dot), Lit(<<"gi","ja">>), Star(Dot), Lit(<<"=">>),
     Star(Dot), Lit(<<"=">>), Star(Dot), Lit(<<"=">>)>>),
     \* line 786: r'^.*기자.*특파원.*=.*=.*='
     Cat(<<Bol, Star(Dot), Lit(<<"gi","ja">>), Star(Dot), Lit(<<"teug","pa","qwon">>), Star(Dot),
     Lit(<<"=">>), Star(Dot), Lit(<<"=">>), Star(Dot), Lit(<<"=">>)>>),
     \* line 787: r'^.*기자.*인턴.*=.*=.*='
     Cat(<<Bol, Star(Dot), Lit(<<"gi","ja">>), Star(Dot), Lit(<<"qin","teon">>), Star(Dot),
     Lit(<<"=">>), Star(Dot), Lit(<<"=">>), Star(Dot), Lit(<<"=">>)>>),
     \* line 788: r'^.*기자.*=.*=.*=.*=.*기자'
     Cat(<<Bol, Star(Dot), Lit(<<"gi","ja">>), Star(Dot), Lit(<<"=">>), Star(Dot), Lit(<<"=">>),
     Star(Dot), Lit(<<"=">>), Star(Dot), Lit(<<"=">>), Star(Dot), Lit(<<"gi","ja">>)>>),
     \* line 789: r'^.*기자.*=.*=.*=.*=.*특파원'
     Cat(<<Bol, Star(Dot), Lit(<<"gi","ja">>), Star(Dot), Lit(<<"=">>), Star(Dot), Lit(<<"=">>),
     Star(Dot), Lit(<<"=">>), Star(Dot), Lit(<<"=">>), Star(Dot), Lit(<<"teug","pa","qwon">>)>>),
     \* line 790: r'^.*기자.*=.*=.*=.*=.*인턴'
     Cat(<<Bol, Star(Dot), Lit(<<"gi","ja">>), Star(Dot), Lit(<<"=">>), Star(Dot), Lit(<<"=">>),
     Star(Dot), Lit(<<"=">>), Star(Dot), Lit(<<"=">>), Star(Dot), Lit(<<"qin","teon">>)>>),
     \* line 791: r'^.*기자.*=.*=.*=.*=.*='
     Cat(<<Bol, Star(Dot), Lit(<<"gi","ja">>), Star(Dot), Lit(<<"=">>), Star(Dot), Lit(<<"=">>),
     Star(Dot), Lit(<<"=">>), Star(Dot), Lit(<<"=">>), Star(Dot), Lit(<<"=">>)>>),
     \* line 792: r'^.*기자.*기자.*=.*=.*=.*='
     Cat(<<Bol, Star(Dot), Lit(<<"gi","ja">>), Star(Dot), Lit(<<"gi","ja">>), Star(Dot), Lit(<<"=">>),
     Star(Dot), Lit(<<"=">>), Star(Dot), Lit(<<"=">>), Star(Dot), Lit(<<"=">>)>>),
     \* line 793: r'^.*기자.*특파원.*=.*=.*=.*='
     Cat(<<Bol, Star(Dot), Lit(<<"gi","ja">>), Star(Dot), Lit(<<"teug","pa","qwon">>), Star(Dot),
     Lit(<<"=">>), Star(Dot), Lit(<<"=">>), Star(Dot), Lit(<<"=">>), Star(Dot), Lit(<<"=">>)>>),
     \* line 794: r'^.*기자.*인턴.*=.*=.*=.*='
     Cat(<<Bol, Star(Dot), Lit(<<"gi","ja">>), Star(Dot), Lit(<<"qin","teon">>), Star(Dot),
     Lit(<<"=">>), Star(Dot), Lit(<<"=">>), Star(Dot), Lit(<<"=">>), Star(Dot), Lit(<<"=">>)>>)
    >>

\* lines 798-847
skip_keywords ==
    <<
     <<"bon","mun"," ","qyo","qyag">>,   \* line 799: '본문 요약'
     <<"hyeon","jae","qwi","chi">>,   \* line 800: '현재위치'
     <<"ji","ja","che">>,   \* line 801: '지자체'
     <<"gi","ja","myeong">>,   \* line 802: '기자명'
     <<"qib","ryeog">>,   \* line 803: '입력'
     <<"ba","ro","ga","gi">>,   \* line 804: '바로가기'
     <<"bog","sa","ha","gi">>,   \* line 805: '복사하기'
     <<"bon","mun"," ","geul","ssi">>,   \* line 806: '본문 글씨'
     <<"geul","ssi"," ","jul","qi","gi">>,   \* line 807: '글씨 줄이기'
     <<"geul","ssi"," ","ki","qu","gi">>,   \* line 808: '글씨 키우기'
     <<"S","N","S">>,   \* line 809: 'SNS'
     <<"pe","qi","seu","bug">>,   \* line 810: '페이스북'
     <<"teu","qwi","teo">>,   \* line 811: '트위터'
     <<"U","R","L","bog","sa">>,   \* line 812: 'URL복사'
     <<"gi","sa","bo","nae","gi">>,   \* line 813: '기사보내기'
     <<"gong","qyu","ha","gi">>,   \* line 814: '공유하기'
     <<"gwan","ryeon"," ","gi","sa">>,   \* line 815: '관련 기사'
     <<"gwan","ryeon","gi","sa">>,   \* line 816: '관련기사'
     <<"gwan","ryeon","sa","jin">>,   \* line 817: '관련사진'
     <<"gwan","ryeon","sa","jin","bo","gi">>,   \* line 818: '관련사진보기'
     <<"gwan","ryeon","gi","sa","bo","gi">>,   \* line 819: '관련기사보기'
     <<"gwan","ryeon","qyeong","sang">>,   \* line 820: '관련영상'
     <<"gwan","ryeon","qyeong","sang","bo","gi">>,   \* line 821: '관련영상보기'
     <<"chu","cheon"," ","gi","sa">>,   \* line 822: '추천 기사'
     <<"chu","cheon","gi","sa">>,   \* line 823: '추천기사'
     <<"chu","cheon","gi","sa","bo","gi">>,   \* line 824: '추천기사보기'
     <<"daes","geul">>,   \* line 825: '댓글'
     <<"daes","geul","bo","gi">>,   \* line 826: '댓글보기'
     <<"joh","qa","qyo">>,   \* line 827: '좋아요'
     <<"deo","bo","gi">>,   \* line 828: '더보기'
     <<"jeon","che","bo","gi">>,   \* line 829: '전체보기'
     <<"gi","ja"," ","=">>,   \* line 830: '기자 ='
     <<"gi","ja","=">>,   \* line 831: '기자='
     <<"teug","pa","qwon"," ","=">>,   \* line 832: '특파원 ='
     <<"teug","pa","qwon","=">>,   \* line 833: '특파원='
     <<"qin","teon","gi","ja"," ","=">>,   \* line 834: '인턴기자 ='
     <<"qin","teon","gi","ja","=">>,   \* line 835: '인턴기자='
     <<"C","o","p","y","r","i","g","h","t">>,   \* line 836: 'Copyright'
     <<"U+00A9">>,   \* line 837: '©'
     <<"mu","dan"," ","jeon","jae">>,   \* line 838: '무단 전재'
     <<"jae","bae","po"," ","geum","ji">>,   \* line 839: '재배포 금지'
     <<"gi","sa"," ","je","bo">>,   \* line 840: '기사 제보'
     <<"qi"," ","gi","sa">>,   \* line 841: '이 기사'
     <<"gi","sa"," ","nae","qyong">>,   \* line 842: '기사 내용'
     <<"keul","rig">>,   \* line 843: '클릭'
     <<"bo","gi">>,   \* line 844: '보기'
     <<"deo"," ","qilg","gi">>,   \* line 845: '더 읽기'
     <<"jeon","che"," ","qilg","gi">>   \* line 846: '전체 읽기'
    >>

\* lines 881 and 1010: r'[가-힣]+\s*[=:]?\s*[가-힣]*\s*기자'
Byline ==
    Cat(<<Plus(OneOf({}, {"hangul"})), Star(OneOf({}, {"space"})), Opt(OneOf({"=", ":"}, {})),
    Star(OneOf({}, {"space"})), Star(OneOf({}, {"hangul"})), Star(OneOf({}, {"space"})),
    Lit(<<"gi","ja">>)>>)

\* lines 854-953: whether the line filter drops the stripped, non-empty line
SkipLine(line) ==
    \* line 855: re.search(r'#\S+')
    \/ Found(Cat(<<Lit(<<"#">>), Plus(NoneOf({}, {"space"}))>>),
             line, Plain)
    \* line 859: re.search(r'사진\s*[=:]\s*[가-힣a-zA-Z\s]+')
    \/ Found(Cat(<<Lit(<<"sa","jin">>), Star(OneOf({}, {"space"})), OneOf({"=", ":"}, {}), Star(OneOf({},
             {"space"})), Plus(OneOf({}, {"hangul", "latin", "space"}))>>),
             line, IgnoreCase)
    \* line 861: re.search(r'그림\s*[=:]\s*[가-힣a-zA-Z\s]+')
    \/ Found(Cat(<<Lit(<<"geu","rim">>), Star(OneOf({}, {"space"})), OneOf({"=", ":"}, {}), Star(OneOf({},
             {"space"})), Plus(OneOf({}, {"hangul", "latin", "space"}))>>),
             line, IgnoreCase)
    \* line 863: re.search(r'표\s*[=:]\s*[가-힣a-zA-Z\s]+')
    \/ Found(Cat(<<Lit(<<"pyo">>), Star(OneOf({}, {"space"})), OneOf({"=", ":"}, {}), Star(OneOf({},
             {"space"})), Plus(OneOf({}, {"hangul", "latin", "space"}))>>),
             line, IgnoreCase)
    \* lines 868-871
    \/ \E k \in 1..Len(skip_patterns) : Matches(skip_patterns[k], line, IgnoreCase)
    \* lines 875-878
    \/ \E k \in 1..Len(skip_keywords) : Contains(line, skip_keywords[k])
    \* lines 881-884
    \/ (/\ Found(Byline, line, Plain)
        /\ ~Found(Cat(<<Lit(<<"gi","ja">>), Star(Dot), Alt(<<Lit(<<"mal">>), Lit(<<"bo","go">>),
                 Lit(<<"jeon","mang">>), Lit(<<"bun","seog">>), Lit(<<"seol","myeong">>),
                 Lit(<<"balg","hyeo">>), Lit(<<"bal","pyo">>)>>)>>),
                 line, Plain))
    \* line 887: re.search(r'[a-zA-Z0-9._%+-]+@[a-zA-Z0-9.-]+\.[a-zA-Z]{2,}')
    \/ Found(Cat(<<Plus(OneOf({".", "_", "%", "+", "-"}, {"digit", "latin"})), Lit(<<"@">>), Plus(OneOf({".",
             "-"}, {"digit", "latin"})), Lit(<<".">>), AtLeast(2, OneOf({}, {"latin"}))>>),
             line, Plain)
    \* line 891: re.search(r'https?://[^\s]+')
    \/ (Len(line) < 100 /\ Found(Cat(<<Lit(<<"h","t","t","p">>), Opt(Lit(<<"s">>)), Lit(<<":","/","/">>), Plus(NoneOf({},
                {"space"}))>>),
                line, Plain))
    \* line 895: re.search(r'(보기|클릭|읽기|확인|이동|더보기|전체보기|관련보기)$')
    \/ Found(Cat(<<Alt(<<Lit(<<"bo","gi">>), Lit(<<"keul","rig">>), Lit(<<"qilg","gi">>),
             Lit(<<"hwag","qin">>), Lit(<<"qi","dong">>), Lit(<<"deo","bo","gi">>),
             Lit(<<"jeon","che","bo","gi">>), Lit(<<"gwan","ryeon","bo","gi">>)>>), Eol>>),
             line, IgnoreCase)
    \* line 899: re.search(r'관련(사진|기사|영상|뉴스|기사)보기')
    \/ Found(Cat(<<Lit(<<"gwan","ryeon">>), Alt(<<Lit(<<"sa","jin">>), Lit(<<"gi","sa">>),
             Lit(<<"qyeong","sang">>), Lit(<<"nyu","seu">>), Lit(<<"gi","sa">>)>>),
             Lit(<<"bo","gi">>)>>),
             line, IgnoreCase)
    \* line 903: re.search(r'[가-힣]{3,}')
    \/ (Len(line) < 10 /\ ~Found(AtLeast(3, OneOf({}, {"hangul"})),
                line, Plain))
    \* line 907: re.search(r'^(관련|추천|더|전체|기사|뉴스|사진|영상).*(보기|클릭|읽기|확인|이동)')
    \/ Found(Cat(<<Bol, Alt(<<Lit(<<"gwan","ryeon">>), Lit(<<"chu","cheon">>), Lit(<<"deo">>),
             Lit(<<"jeon","che">>), Lit(<<"gi","sa">>), Lit(<<"nyu","seu">>),
             Lit(<<"sa","jin">>), Lit(<<"qyeong","sang">>)>>), Star(Dot),
             Alt(<<Lit(<<"bo","gi">>), Lit(<<"keul","rig">>), Lit(<<"qilg","gi">>),
             Lit(<<"hwag","qin">>), Lit(<<"qi","dong">>)>>)>>),
             line, IgnoreCase)
    \* line 911: re.match(r'^\[(사진|그림|표|캡션|포토|이미지)[=:].*\]')
    \/ Matches(Cat(<<Bol, Lit(<<"[">>), Alt(<<Lit(<<"sa","jin">>), Lit(<<"geu","rim">>), Lit(<<"pyo">>),
               Lit(<<"kaeb","syeon">>), Lit(<<"po","to">>), Lit(<<"qi","mi","ji">>)>>),
               OneOf({"=", ":"}, {}), Star(Dot), Lit(<<"]">>)>>),
               line, IgnoreCase)
    \* line 915: re.match(r'^\[.*\]$')
    \/ (Len(line) < 50 /\ Matches(Cat(<<Bol, Lit(<<"[">>), Star(Dot), Lit(<<"]">>), Eol>>),
                  line, Plain))
    \* line 919: re.search(r'^\[(뉴시스|연합뉴스|조선일보|중앙일보|동아일보|한겨레|경향신문|매일경제|한국경제|서울신문|세계일보|문화일보|국민일보|내일신문|헤럴드경제|아시아경제|이데일리|뉴스1|YTN|SBS|KBS|MBC|JTBC|채널A|TV조선|MBN|기자협회|AP|AFP|로이터|로이터통신|Reuters|AP통신)\]\s*')
    \/ Found(Cat(<<Bol, Lit(<<"[">>), Alt(<<Lit(<<"nyu","si","seu">>), Lit(<<"qyeon","hab","nyu","seu">>),
             Lit(<<"jo","seon","qil","bo">>), Lit(<<"jung","qang","qil","bo">>),
             Lit(<<"dong","qa","qil","bo">>), Lit(<<"han","gyeo","re">>),
             Lit(<<"gyeong","hyang","sin","mun">>), Lit(<<"mae","qil","gyeong","je">>),
             Lit(<<"han","gug","gyeong","je">>), Lit(<<"seo","qul","sin","mun">>),
             Lit(<<"se","gye","qil","bo">>), Lit(<<"mun","hwa","qil","bo">>),
             Lit(<<"gug","min","qil","bo">>), Lit(<<"nae","qil","sin","mun">>),
             Lit(<<"he","reol","deu","gyeong","je">>), Lit(<<"qa","si","qa","gyeong","je">>),
             Lit(<<"qi","de","qil","ri">>), Lit(<<"nyu","seu","1">>), Lit(<<"Y","T","N">>),
             Lit(<<"S","B","S">>), Lit(<<"K","B","S">>), Lit(<<"M","B","C">>),
             Lit(<<"J","T","B","C">>), Lit(<<"chae","neol","A">>), Lit(<<"T","V","jo","seon">>),
             Lit(<<"M","B","N">>), Lit(<<"gi","ja","hyeob","hoe">>), Lit(<<"A","P">>),
             Lit(<<"A","F","P">>), Lit(<<"ro","qi","teo">>),
             Lit(<<"ro","qi","teo","tong","sin">>), Lit(<<"R","e","u","t","e","r","s">>),
             Lit(<<"A","P","tong","sin">>)>>), Lit(<<"]">>), Star(OneOf({}, {"space"}))>>),
             line, IgnoreCase)
    \* line 923: re.search(r'\(사진\s*[=:]\s*[^)]+\)')
    \/ Found(Cat(<<Lit(<<"(","sa","jin">>), Star(OneOf({}, {"space"})), OneOf({"=", ":"}, {}), Star(OneOf({},
             {"space"})), Plus(NoneOf({")"}, {})), Lit(<<")">>)>>),
             line, IgnoreCase)
    \* line 925: re.search(r'\(그림\s*[=:]\s*[^)]+\)')
    \/ Found(Cat(<<Lit(<<"(","geu","rim">>), Star(OneOf({}, {"space"})), OneOf({"=", ":"}, {}), Star(OneOf({},
             {"space"})), Plus(NoneOf({")"}, {})), Lit(<<")">>)>>),
             line, IgnoreCase)
    \* line 927: re.search(r'\(표\s*[=:]\s*[^)]+\)')
    \/ Found(Cat(<<Lit(<<"(","pyo">>), Star(OneOf({}, {"space"})), OneOf({"=", ":"}, {}), Star(OneOf({},
             {"space"})), Plus(NoneOf({")"}, {})), Lit(<<")">>)>>),
             line, IgnoreCase)
    \* line 932: re.search(r'\[.*\]\s*.*\(사진\s*[=:]\s*[^)]+\)')
    \/ Found(Cat(<<Lit(<<"[">>), Star(Dot), Lit(<<"]">>), Star(OneOf({}, {"space"})), Star(Dot),
             Lit(<<"(","sa","jin">>), Star(OneOf({}, {"space"})), OneOf({"=", ":"}, {}),
             Star(OneOf({}, {"space"})), Plus(NoneOf({")"}, {})), Lit(<<")">>)>>),
             line, IgnoreCase)
    \* line 936: re.search(r'[/]?\s*사진\s*제공\s*[=:]')
    \/ Found(Cat(<<Opt(Lit(<<"/">>)), Star(OneOf({}, {"space"})), Lit(<<"sa","jin">>), Star(OneOf({},
             {"space"})), Lit(<<"je","gong">>), Star(OneOf({}, {"space"})), OneOf({"=", ":"},
             {})>>),
             line, IgnoreCase)
    \* line 940: re.search(r'[/]?\s*사진\s*제공\s*[=:]')
    \/ Found(Cat(<<Opt(Lit(<<"/">>)), Star(OneOf({}, {"space"})), Lit(<<"sa","jin">>), Star(OneOf({},
             {"space"})), Lit(<<"je","gong">>), Star(OneOf({}, {"space"})), OneOf({"=", ":"},
             {})>>),
             line, IgnoreCase)
    \* line 945: re.search(r'[/]?\s*제공\s*[=:]')
    \/ (Len(line) < 100 /\ Found(Cat(<<Opt(Lit(<<"/">>)), Star(OneOf({}, {"space"})), Lit(<<"je","gong">>), Star(OneOf({},
                {"space"})), OneOf({"=", ":"}, {})>>),
                line, IgnoreCase))
    \* line 952: re.search(r'\b(CEO|대표|회장|사장|이사|부장|차장|과장|팀장|실장|본부장|그룹장|총괄|책임|담당)\b'); line 952: re.search(r'[가-힣]{10,}')
    \/ (Len(line) < 50 /\ Found(Cat(<<WordEdge, Alt(<<Lit(<<"C","E","O">>), Lit(<<"dae","pyo">>), Lit(<<"hoe","jang">>),
                Lit(<<"sa","jang">>), Lit(<<"qi","sa">>), Lit(<<"bu","jang">>),
                Lit(<<"cha","jang">>), Lit(<<"gwa","jang">>), Lit(<<"tim","jang">>),
                Lit(<<"sil","jang">>), Lit(<<"bon","bu","jang">>), Lit(<<"geu","rub","jang">>),
                Lit(<<"chong","gwal">>), Lit(<<"chaeg","qim">>), Lit(<<"dam","dang">>)>>),
                WordEdge>>),
                line, Plain) /\ ~Found(AtLeast(10, OneOf({}, {"hangul"})),
                line, Plain))

\* lines 962-1000: the substitutions on the joined text
GlobalSubs ==
    <<
     \* line 962: r'\[(사진|그림|표|캡션|포토|이미지)[=:][^\]]*\]' -> ''
     [r |-> Cat(<<Lit(<<"[">>), Alt(<<Lit(<<"sa","jin">>), Lit(<<"geu","rim">>), Lit(<<"pyo">>),
            Lit(<<"kaeb","syeon">>), Lit(<<"po","to">>), Lit(<<"qi","mi","ji">>)>>), OneOf({"=",
            ":"}, {}), Star(NoneOf({"]"}, {})), Lit(<<"]">>)>>),
      repl |-> <<>>, f |-> IgnoreCase],
     \* line 965: r'\(사진\s*[=:]\s*[^)]+\)' -> ''
     [r |-> Cat(<<Lit(<<"(","sa","jin">>), Star(OneOf({}, {"space"})), OneOf({"=", ":"}, {}), Star(OneOf({},
            {"space"})), Plus(NoneOf({")"}, {})), Lit(<<")">>)>>),
      repl |-> <<>>, f |-> IgnoreCase],
     \* line 966: r'\(그림\s*[=:]\s*[^)]+\)' -> ''
     [r |-> Cat(<<Lit(<<"(","geu","rim">>), Star(OneOf({}, {"space"})), OneOf({"=", ":"}, {}), Star(OneOf({},
            {"space"})), Plus(NoneOf({")"}, {})), Lit(<<")">>)>>),
      repl |-> <<>>, f |-> IgnoreCase],
     \* line 967: r'\(표\s*[=:]\s*[^)]+\)' -> ''
     [r |-> Cat(<<Lit(<<"(","pyo">>), Star(OneOf({}, {"space"})), OneOf({"=", ":"}, {}), Star(OneOf({},
            {"space"})), Plus(NoneOf({")"}, {})), Lit(<<")">>)>>),
      repl |-> <<>>, f |-> IgnoreCase],
     \* line 970: r'관련(사진|기사|영상|뉴스)보기' -> ''
     [r |-> Cat(<<Lit(<<"gwan","ryeon">>), Alt(<<Lit(<<"sa","jin">>), Lit(<<"gi","sa">>),
            Lit(<<"qyeong","sang">>), Lit(<<"nyu","seu">>)>>), Lit(<<"bo","gi">>)>>),
      repl |-> <<>>, f |-> IgnoreCase],
     \* line 973: r'^.*(보기|클릭|읽기|확인|이동|더보기|전체보기|관련보기)$' -> ''
     [r |-> Cat(<<Bol, Star(Dot), Alt(<<Lit(<<"bo","gi">>), Lit(<<"keul","rig">>), Lit(<<"qilg","gi">>),
            Lit(<<"hwag","qin">>), Lit(<<"qi","dong">>), Lit(<<"deo","bo","gi">>),
            Lit(<<"jeon","che","bo","gi">>), Lit(<<"gwan","ryeon","bo","gi">>)>>), Eol>>),
      repl |-> <<>>, f |-> IgnoreCaseMultiline],
     \* line 976: r'\[(뉴시스|연합뉴스|조선일보|중앙일보|동아일보|한겨레|경향신문|매일경제|한국경제|서울신문|세계일보|문화일보|국민일보|내일신문|헤럴드경제|아시아경제|이데일리|뉴스1|YTN|SBS|KBS|MBC|JTBC|채널A|TV조선|MBN|기자협회|AP|AFP|로이터|로이터통신|Reuters|AP통신)\]\s*' -> ''
     [r |-> Cat(<<Lit(<<"[">>), Alt(<<Lit(<<"nyu","si","seu">>), Lit(<<"qyeon","hab","nyu","seu">>),
            Lit(<<"jo","seon","qil","bo">>), Lit(<<"jung","qang","qil","bo">>),
            Lit(<<"dong","qa","qil","bo">>), Lit(<<"han","gyeo","re">>),
            Lit(<<"gyeong","hyang","sin","mun">>), Lit(<<"mae","qil","gyeong","je">>),
            Lit(<<"han","gug","gyeong","je">>), Lit(<<"seo","qul","sin","mun">>),
            Lit(<<"se","gye","qil","bo">>), Lit(<<"mun","hwa","qil","bo">>),
            Lit(<<"gug","min","qil","bo">>), Lit(<<"nae","qil","sin","mun">>),
            Lit(<<"he","reol","deu","gyeong","je">>), Lit(<<"qa","si","qa","gyeong","je">>),
            Lit(<<"qi","de","qil","ri">>), Lit(<<"nyu","seu","1">>), Lit(<<"Y","T","N">>),
            Lit(<<"S","B","S">>), Lit(<<"K","B","S">>), Lit(<<"M","B","C">>),
            Lit(<<"J","T","B","C">>), Lit(<<"chae","neol","A">>), Lit(<<"T","V","jo","seon">>),
            Lit(<<"M","B","N">>), Lit(<<"gi","ja","hyeob","hoe">>), Lit(<<"A","P">>),
            Lit(<<"A","F","P">>), Lit(<<"ro","qi","teo">>),
            Lit(<<"ro","qi","teo","tong","sin">>), Lit(<<"R","e","u","t","e","r","s">>),
            Lit(<<"A","P","tong","sin">>)>>), Lit(<<"]">>), Star(OneOf({}, {"space"}))>>),
      repl |-> <<>>, f |-> IgnoreCase],
     \* line 979: r'\[.*\]\s*.*\(사진\s*[=:]\s*[^)]+\)' -> ''
     [r |-> Cat(<<Lit(<<"[">>), Star(Dot), Lit(<<"]">>), Star(OneOf({}, {"space"})), Star(Dot),
            Lit(<<"(","sa","jin">>), Star(OneOf({}, {"space"})), OneOf({"=", ":"}, {}),
            Star(OneOf({}, {"space"})), Plus(NoneOf({")"}, {})), Lit(<<")">>)>>),
      repl |-> <<>>, f |-> IgnoreCase],
     \* line 982: r'[/]?\s*사진\s*제공\s*[=:][^\n]*' -> ''
     [r |-> Cat(<<Opt(Lit(<<"/">>)), Star(OneOf({}, {"space"})), Lit(<<"sa","jin">>), Star(OneOf({},
            {"space"})), Lit(<<"je","gong">>), Star(OneOf({}, {"space"})), OneOf({"=", ":"}, {}),
            Star(NoneOf({"\n"}, {}))>>),
      repl |-> <<>>, f |-> IgnoreCase],
     \* line 985: r'[/]\s*[가-힣a-zA-Z\s]+\s*제공' -> ''
     [r |-> Cat(<<Lit(<<"/">>), Star(OneOf({}, {"space"})), Plus(OneOf({}, {"hangul", "latin", "space"})),
            Star(OneOf({}, {"space"})), Lit(<<"je","gong">>)>>),
      repl |-> <<>>, f |-> IgnoreCase],
     \* line 986: r'[/]?\s*제공\s*[=:][^\n]*' -> ''
     [r |-> Cat(<<Opt(Lit(<<"/">>)), Star(OneOf({}, {"space"})), Lit(<<"je","gong">>), Star(OneOf({},
            {"space"})), OneOf({"=", ":"}, {}), Star(NoneOf({"\n"}, {}))>>),
      repl |-> <<>>, f |-> IgnoreCase],
     \* line 990: r'[가-힣a-zA-Z\s]+\s+(CEO|대표|회장|사장|이사|부장|차장|과장|팀장|실장|본부장|그룹장|총괄|책임|담당)\s*[/]?\s*사진\s*제공\s*[=:][^\n]*' -> ''
     [r |-> Cat(<<Plus(OneOf({}, {"hangul", "latin", "space"})), Plus(OneOf({}, {"space"})),
            Alt(<<Lit(<<"C","E","O">>), Lit(<<"dae","pyo">>), Lit(<<"hoe","jang">>),
            Lit(<<"sa","jang">>), Lit(<<"qi","sa">>), Lit(<<"bu","jang">>),
            Lit(<<"cha","jang">>), Lit(<<"gwa","jang">>), Lit(<<"tim","jang">>),
            Lit(<<"sil","jang">>), Lit(<<"bon","bu","jang">>), Lit(<<"geu","rub","jang">>),
            Lit(<<"chong","gwal">>), Lit(<<"chaeg","qim">>), Lit(<<"dam","dang">>)>>),
            Star(OneOf({}, {"space"})), Opt(Lit(<<"/">>)), Star(OneOf({}, {"space"})),
            Lit(<<"sa","jin">>), Star(OneOf({}, {"space"})), Lit(<<"je","gong">>), Star(OneOf({},
            {"space"})), OneOf({"=", ":"}, {}), Star(NoneOf({"\n"}, {}))>>),
      repl |-> <<>>, f |-> IgnoreCase],
     \* line 994: r'[가-힣\s]+(조감도|사진|그림|표|이미지)[\.]?\s*[/]\s*[가-힣a-zA-Z\s]+\s*제공' -> ''
     [r |-> Cat(<<Plus(OneOf({}, {"hangul", "space"})), Alt(<<Lit(<<"jo","gam","do">>), Lit(<<"sa","jin">>),
            Lit(<<"geu","rim">>), Lit(<<"pyo">>), Lit(<<"qi","mi","ji">>)>>), Opt(Lit(<<".">>)),
            Star(OneOf({}, {"space"})), Lit(<<"/">>), Star(OneOf({}, {"space"})), Plus(OneOf({},
            {"hangul", "latin", "space"})), Star(OneOf({}, {"space"})), Lit(<<"je","gong">>)>>),
      repl |-> <<>>, f |-> IgnoreCase],
     \* line 995: r'[가-힣\s]+(조감도|사진|그림|표|이미지)[\.]?\s*[/]\s*[가-힣a-zA-Z\s]+' -> ''
     [r |-> Cat(<<Plus(OneOf({}, {"hangul", "space"})), Alt(<<Lit(<<"jo","gam","do">>), Lit(<<"sa","jin">>),
            Lit(<<"geu","rim">>), Lit(<<"pyo">>), Lit(<<"qi","mi","ji">>)>>), Opt(Lit(<<".">>)),
            Star(OneOf({}, {"space"})), Lit(<<"/">>), Star(OneOf({}, {"space"})), Plus(OneOf({},
            {"hangul", "latin", "space"}))>>),
      repl |-> <<>>, f |-> IgnoreCase],
     \* line 998: r'\n\s*\n\s*\n+' -> '\n\n'
     [r |-> Cat(<<Lit(<<"\n">>), Star(OneOf({}, {"space"})), Lit(<<"\n">>), Star(OneOf({}, {"space"})),
            Plus(Lit(<<"\n">>))>>),
      repl |-> <<"\n","\n">>, f |-> Plain],
     \* line 999: r'\n\s*\n+' -> '\n'
     [r |-> Cat(<<Lit(<<"\n">>), Star(OneOf({}, {"space"})), Plus(Lit(<<"\n">>))>>),
      repl |-> <<"\n">>, f |-> Plain],
     \* line 1000: r' +' -> ' '
     [r |-> Plus(Lit(<<" ">>)),
      repl |-> <<" ">>, f |-> Plain]
    >>

\* each step is an operator of the value it works on
CleanArticleText(text) ==
    LET \* 849-956: the stripped, non-empty lines the filter keeps
        cleaned_lines(lines) ==
            SelectSeq([k \in 1..Len(lines) |-> Strip(lines[k])],
                      LAMBDA line : line # <<>> /\ ~SkipLine(line))
        \* 1008-1012: the lines before the first line that looks like a byline
        main_content_start(lines_after_clean) ==
            LET bylines == {i \in 1..Len(lines_after_clean) :
                               /\ Found(Byline, lines_after_clean[i], Plain)
                               /\ Len(lines_after_clean[i]) < 50}
            IN  IF bylines = {} THEN 0
                ELSE (CHOOSE i \in bylines : \A j \in bylines : i <= j) - 1
        \* 1015-1018
        main_content(cleaned_text, lines_after_clean, start) ==
            IF start > 0
            THEN Strip(JoinLines(SubSeq(lines_after_clean, 1, start)))
            ELSE Strip(cleaned_text)
        \* 1005-1018
        cut_at_byline(cleaned_text, lines_after_clean) ==
            main_content(cleaned_text, lines_after_clean,
                         main_content_start(lines_after_clean))
        from_byline_on_removed(cleaned_text) ==
            cut_at_byline(cleaned_text, SplitLines(cleaned_text))
    IN  IF text = <<>> THEN text                                  \* 724
        ELSE from_byline_on_removed(
                 \* 959-1001
                 Strip(SubAll(GlobalSubs,
                     JoinLines(cleaned_lines(
                         \* 728-735
                         SplitLines(SubAll(InlineSubs, text)))))))

(***************************************************************************)
(* The cleaner at work: fetch_full_text cleans the text of a page (line    *)
(* 1384) and summarize_text cleans what it is given once more (line 657).  *)
(***************************************************************************)
MaxLines == 2
ArticleLines ==
    {
     <<"gyeong","je","ga"," ","seong","jang","haess","da",".">>,   \* 경제가 성장했다.
     <<"sa","jin","=","qyeon","hab","nyu","seu">>,   \* 사진=연합뉴스
     <<"sa","jin","=","2","0","2","4","nyeon"," ","haeng","sa"," ","mo","seub","qi","da",".">>,   \* 사진=2024년 행사 모습이다.
     <<"[","qyeon","hab","nyu","seu","]"," ","bon","mun","qi","da",".">>,   \* [연합뉴스] 본문이다.
     <<"seo","qul"," ","[","qyeon","hab","nyu","seu","]">>,   \* 서울 [연합뉴스]
     <<"hong","gil","dong"," ","gi","ja"," ","="," ","bon","mun","qi","da",".">>,   \* 홍길동 기자 = 본문이다.
     <<"gim"," ","gi","ja","neun"," ","mal","haess","da",".">>,   \* 김 기자는 말했다.
     <<"gwan","ryeon","gi","sa"," ","deo","bo","gi">>,   \* 관련기사 더보기
     <<"si","min","deul","qeun"," ","daes","geul","ro"," ","qeung","qwon","qui"," ","me","si","ji","reul"," ","nam","gi","myeo"," ","gi","dae","reul"," ","na","ta","naess","da",".">>   \* 시민들은 댓글로 응원의 메시지를 남기며 기대를 나타냈다.
    }
\* the texts of one to MaxLines of these lines
CleanTexts ==
    {JoinLines(ls) : ls \in UNION {[1..n -> ArticleLines] : n \in 1..MaxLines}}

CleanInit ==
    /\ cleaner = [pc |-> "ready"]
    /\ SentimentNotCalled /\ search = NotCalled
    /\ english = NotCalled /\ crawl = NotCalled /\ fallback = NotCalled
    /\ summarizer = NotCalled

\* line 1384: text = self._clean_article_text(text)
CleanArticleTextCall ==
    /\ cleaner.pc = "ready"
    /\ \E text \in CleanTexts :
          cleaner' = [pc |-> "cleaned", text |-> text,
                      cleaned |-> CleanArticleText(text)]
    /\ UNCHANGED <<sentimentVars, search, english, crawl, fallback, summarizer>>

\* line 657: the cleaned text is cleaned again
CleanAgain ==
    /\ cleaner.pc = "cleaned"
    /\ cleaner' = [pc |-> "recleaned", text |-> cleaner.text,
                   cleaned |-> cleaner.cleaned,
                   again |-> CleanArticleText(cleaner.cleaned)]
    /\ UNCHANGED <<sentimentVars, search, english, crawl, fallback, summarizer>>

CleanNext == CleanArticleTextCall \/ CleanAgain

CleanSpec == CleanInit /\ [][CleanNext]_vars

(***************************************************************************)
(* Claims about the cleaner                                                *)
(***************************************************************************)

\* C4: cleaning is idempotent: cleaning a cleaned text gives the cleaned
\* text again, _clean_article_text(_clean_article_text(x)) =
\* _clean_article_text(x) for every text x.
C4_Idempotent ==
    cleaner.pc = "recleaned" => cleaner.again = cleaner.cleaned

\* C5: when a line of the input has the form "사진=OOO", or starts with the
\* press-agency tag "[연합뉴스]", the cleaned text does not contain that line.
C5_CaptionAndAgencyLinesRemoved ==
    cleaner.pc \in {"cleaned", "recleaned"} =>
        LET lines == SplitLines(cleaner.text)
            StartsWith(line, p) == Len(line) > Len(p) /\ SubSeq(line, 1, Len(p)) = p
        IN  \A k \in 1..Len(lines) :
               \/ StartsWith(lines[k], <<"sa","jin","=">>)
               \/ StartsWith(lines[k], <<"[","qyeon","hab","nyu","seu","]">>)
               => ~Contains(cleaner.cleaned, lines[k])

(***************************************************************************)
(* NaverNewsAPICrawler._clean_summary (src/src/crawl_naver_api.py lines    *)
(* 1020-1079) and summarize_text (lines 638-717) with the two local-model  *)
(* summarizers it calls (lines 357-494 and 496-636).                       *)
(***************************************************************************)
\* lines 1029-1072: the substitutions on a summary
SummarySubs ==
    <<
     \* line 1029: r'#\S+' -> ''
     [r |-> Cat(<<Lit(<<"#">>), Plus(NoneOf({}, {"space"}))>>),
      repl |-> <<>>, f |-> Plain],
     \* line 1032: r'사진\s*[=:]\s*[가-힣a-zA-Z\s]+' -> ''
     [r |-> Cat(<<Lit(<<"sa","jin">>), Star(OneOf({}, {"space"})), OneOf({"=", ":"}, {}), Star(OneOf({},
            {"space"})), Plus(OneOf({}, {"hangul", "latin", "space"}))>>),
      repl |-> <<>>, f |-> IgnoreCase],
     \* line 1033: r'그림\s*[=:]\s*[가-힣a-zA-Z\s]+' -> ''
     [r |-> Cat(<<Lit(<<"geu","rim">>), Star(OneOf({}, {"space"})), OneOf({"=", ":"}, {}), Star(OneOf({},
            {"space"})), Plus(OneOf({}, {"hangul", "latin", "space"}))>>),
      repl |-> <<>>, f |-> IgnoreCase],
     \* line 1034: r'표\s*[=:]\s*[가-힣a-zA-Z\s]+' -> ''
     [r |-> Cat(<<Lit(<<"pyo">>), Star(OneOf({}, {"space"})), OneOf({"=", ":"}, {}), Star(OneOf({},
            {"space"})), Plus(OneOf({}, {"hangul", "latin", "space"}))>>),
      repl |-> <<>>, f |-> IgnoreCase],
     \* line 1037: r'\[(뉴시스|연합뉴스|조선일보|중앙일보|동아일보|한겨레|경향신문|매일경제|한국경제|서울신문|세계일보|문화일보|국민일보|내일신문|헤럴드경제|아시아경제|이데일리|뉴스1|YTN|SBS|KBS|MBC|JTBC|채널A|TV조선|MBN|기자협회|AP|AFP|로이터|로이터통신|Reuters|AP통신)\]\s*' -> ''
     [r |-> Cat(<<Lit(<<"[">>), Alt(<<Lit(<<"nyu","si","seu">>), Lit(<<"qyeon","hab","nyu","seu">>),
            Lit(<<"jo","seon","qil","bo">>), Lit(<<"jung","qang","qil","bo">>),
            Lit(<<"dong","qa","qil","bo">>), Lit(<<"han","gyeo","re">>),
            Lit(<<"gyeong","hyang","sin","mun">>), Lit(<<"mae","qil","gyeong","je">>),
            Lit(<<"han","gug","gyeong","je">>), Lit(<<"seo","qul","sin","mun">>),
            Lit(<<"se","gye","qil","bo">>), Lit(<<"mun","hwa","qil","bo">>),
            Lit(<<"gug","min","qil","bo">>), Lit(<<"nae","qil","sin","mun">>),
            Lit(<<"he","reol","deu","gyeong","je">>), Lit(<<"qa","si","qa","gyeong","je">>),
            Lit(<<"qi","de","qil","ri">>), Lit(<<"nyu","seu","1">>), Lit(<<"Y","T","N">>),
            Lit(<<"S","B","S">>), Lit(<<"K","B","S">>), Lit(<<"M","B","C">>),
            Lit(<<"J","T","B","C">>), Lit(<<"chae","neol","A">>), Lit(<<"T","V","jo","seon">>),
            Lit(<<"M","B","N">>), Lit(<<"gi","ja","hyeob","hoe">>), Lit(<<"A","P">>),
            Lit(<<"A","F","P">>), Lit(<<"ro","qi","teo">>),
            Lit(<<"ro","qi","teo","tong","sin">>), Lit(<<"R","e","u","t","e","r","s">>),
            Lit(<<"A","P","tong","sin">>)>>), Lit(<<"]">>), Star(OneOf({}, {"space"}))>>),
      repl |-> <<>>, f |-> IgnoreCase],
     \* line 1040: r'\(사진\s*[=:]\s*[^)]+\)' -> ''
     [r |-> Cat(<<Lit(<<"(","sa","jin">>), Star(OneOf({}, {"space"})), OneOf({"=", ":"}, {}), Star(OneOf({},
            {"space"})), Plus(NoneOf({")"}, {})), Lit(<<")">>)>>),
      repl |-> <<>>, f |-> IgnoreCase],
     \* line 1041: r'\(그림\s*[=:]\s*[^)]+\)' -> ''
     [r |-> Cat(<<Lit(<<"(","geu","rim">>), Star(OneOf({}, {"space"})), OneOf({"=", ":"}, {}), Star(OneOf({},
            {"space"})), Plus(NoneOf({")"}, {})), Lit(<<")">>)>>),
      repl |-> <<>>, f |-> IgnoreCase],
     \* line 1042: r'\(표\s*[=:]\s*[^)]+\)' -> ''
     [r |-> Cat(<<Lit(<<"(","pyo">>), Star(OneOf({}, {"space"})), OneOf({"=", ":"}, {}), Star(OneOf({},
            {"space"})), Plus(NoneOf({")"}, {})), Lit(<<")">>)>>),
      repl |-> <<>>, f |-> IgnoreCase],
     \* line 1045: r'\[.*\]\s*.*\(사진\s*[=:]\s*[^)]+\)' -> ''
     [r |-> Cat(<<Lit(<<"[">>), Star(Dot), Lit(<<"]">>), Star(OneOf({}, {"space"})), Star(Dot),
            Lit(<<"(","sa","jin">>), Star(OneOf({}, {"space"})), OneOf({"=", ":"}, {}),
            Star(OneOf({}, {"space"})), Plus(NoneOf({")"}, {})), Lit(<<")">>)>>),
      repl |-> <<>>, f |-> IgnoreCase],
     \* line 1048: r'[/]\s*[가-힣a-zA-Z\s]+\s*제공' -> ''
     [r |-> Cat(<<Lit(<<"/">>), Star(OneOf({}, {"space"})), Plus(OneOf({}, {"hangul", "latin", "space"})),
            Star(OneOf({}, {"space"})), Lit(<<"je","gong">>)>>),
      repl |-> <<>>, f |-> IgnoreCase],
     \* line 1051: r'[/]?\s*사진\s*제공\s*[=:][^\n]*' -> ''
     [r |-> Cat(<<Opt(Lit(<<"/">>)), Star(OneOf({}, {"space"})), Lit(<<"sa","jin">>), Star(OneOf({},
            {"space"})), Lit(<<"je","gong">>), Star(OneOf({}, {"space"})), OneOf({"=", ":"}, {}),
            Star(NoneOf({"\n"}, {}))>>),
      repl |-> <<>>, f |-> IgnoreCase],
     \* line 1054: r'[/]?\s*제공\s*[=:][^\n]*' -> ''
     [r |-> Cat(<<Opt(Lit(<<"/">>)), Star(OneOf({}, {"space"})), Lit(<<"je","gong">>), Star(OneOf({},
            {"space"})), OneOf({"=", ":"}, {}), Star(NoneOf({"\n"}, {}))>>),
      repl |-> <<>>, f |-> IgnoreCase],
     \* line 1057: r'[가-힣\s]+(조감도|사진|그림|표|이미지)[\.]?\s*[/]\s*[가-힣a-zA-Z\s]+\s*제공' -> ''
     [r |-> Cat(<<Plus(OneOf({}, {"hangul", "space"})), Alt(<<Lit(<<"jo","gam","do">>), Lit(<<"sa","jin">>),
            Lit(<<"geu","rim">>), Lit(<<"pyo">>), Lit(<<"qi","mi","ji">>)>>), Opt(Lit(<<".">>)),
            Star(OneOf({}, {"space"})), Lit(<<"/">>), Star(OneOf({}, {"space"})), Plus(OneOf({},
            {"hangul", "latin", "space"})), Star(OneOf({}, {"space"})), Lit(<<"je","gong">>)>>),
      repl |-> <<>>, f |-> IgnoreCase],
     \* line 1058: r'[가-힣\s]+(조감도|사진|그림|표|이미지)[\.]?\s*[/]\s*[가-힣a-zA-Z\s]+' -> ''
     [r |-> Cat(<<Plus(OneOf({}, {"hangul", "space"})), Alt(<<Lit(<<"jo","gam","do">>), Lit(<<"sa","jin">>),
            Lit(<<"geu","rim">>), Lit(<<"pyo">>), Lit(<<"qi","mi","ji">>)>>), Opt(Lit(<<".">>)),
            Star(OneOf({}, {"space"})), Lit(<<"/">>), Star(OneOf({}, {"space"})), Plus(OneOf({},
            {"hangul", "latin", "space"}))>>),
      repl |-> <<>>, f |-> IgnoreCase],
     \* line 1061: r'\[(사진|그림|표|캡션|포토|이미지)[=:][^\]]*\]' -> ''
     [r |-> Cat(<<Lit(<<"[">>), Alt(<<Lit(<<"sa","jin">>), Lit(<<"geu","rim">>), Lit(<<"pyo">>),
            Lit(<<"kaeb","syeon">>), Lit(<<"po","to">>), Lit(<<"qi","mi","ji">>)>>), OneOf({"=",
            ":"}, {}), Star(NoneOf({"]"}, {})), Lit(<<"]">>)>>),
      repl |-> <<>>, f |-> IgnoreCase],
     \* line 1064: r'[가-힣a-zA-Z\s]+\s+(CEO|대표|회장|사장|이사|부장|차장|과장|팀장|실장|본부장|그룹장|총괄|책임|담당)\s*[/]?\s*사진\s*제공\s*[=:][^\n]*' -> ''
     [r |-> Cat(<<Plus(OneOf({}, {"hangul", "latin", "space"})), Plus(OneOf({}, {"space"})),
            Alt(<<Lit(<<"C","E","O">>), Lit(<<"dae","pyo">>), Lit(<<"hoe","jang">>),
            Lit(<<"sa","jang">>), Lit(<<"qi","sa">>), Lit(<<"bu","jang">>),
            Lit(<<"cha","jang">>), Lit(<<"gwa","jang">>), Lit(<<"tim","jang">>),
            Lit(<<"sil","jang">>), Lit(<<"bon","bu","jang">>), Lit(<<"geu","rub","jang">>),
            Lit(<<"chong","gwal">>), Lit(<<"chaeg","qim">>), Lit(<<"dam","dang">>)>>),
            Star(OneOf({}, {"space"})), Opt(Lit(<<"/">>)), Star(OneOf({}, {"space"})),
            Lit(<<"sa","jin">>), Star(OneOf({}, {"space"})), Lit(<<"je","gong">>), Star(OneOf({},
            {"space"})), OneOf({"=", ":"}, {}), Star(NoneOf({"\n"}, {}))>>),
      repl |-> <<>>, f |-> IgnoreCase],
     \* line 1067: r'[가-힣]+\s*[=:]?\s*[가-힣]*\s*기자\s*[=:]' -> ''
     [r |-> Cat(<<Plus(OneOf({}, {"hangul"})), Star(OneOf({}, {"space"})), Opt(OneOf({"=", ":"}, {})),
            Star(OneOf({}, {"space"})), Star(OneOf({}, {"hangul"})), Star(OneOf({}, {"space"})),
            Lit(<<"gi","ja">>), Star(OneOf({}, {"space"})), OneOf({"=", ":"}, {})>>),
      repl |-> <<>>, f |-> Plain],
     \* line 1070: r'\s+' -> ' '
     [r |-> Plus(OneOf({}, {"space"})),
      repl |-> <<" ">>, f |-> Plain],
     \* line 1072: r'\n\s*\n+' -> ' '
     [r |-> Cat(<<Lit(<<"\n">>), Star(OneOf({}, {"space"})), Plus(Lit(<<"\n">>))>>),
      repl |-> <<" ">>, f |-> Plain]
    >>

CleanSummary(summary) ==
    IF summary = <<>> THEN summary                                \* 1025
    ELSE LET unless_short(cleaned) ==
                 IF Len(cleaned) < 20 THEN <<>> ELSE cleaned      \* 1076
         IN  unless_short(Strip(SubAll(SummarySubs, summary)))    \* 1029-1073

\* str.rfind of a string of one or more characters
RFindStr(s, k) ==
    LET places == {i \in 1..(Len(s) - Len(k) + 1) : SubSeq(s, i, i + Len(k) - 1) = k}
    IN  IF places = {} THEN -1 ELSE (CHOOSE i \in places : \A j \in places : j <= i) - 1

\* lines 472-486 and 614-628: a summary that does not end a sentence is cut
\* after its last sentence mark when that mark lies in its second half
EndOnSentence(summary) ==
    LET marks == {".", "!", "?", "U+3002", "U+FF01", "U+FF1F"}
        found == {RFind(summary, c) : c \in marks} \cup {RFindStr(summary, <<"da",".">>)}
        last_punct == CHOOSE x \in found : \A y \in found : y <= x     \* max
    IN  IF summary # <<>> /\ summary[Len(summary)] \notin marks \cup {"da"}
        THEN IF 2 * last_punct > Len(summary)
             THEN SubSeq(summary, 1, last_punct + 1)
             ELSE summary
        ELSE summary

(***************************************************************************)
(* One call of summarize_text on a crawler as __init__ (lines 30-65) made  *)
(* it: the mode, the OpenAI client when a key was given, no local model.   *)
(***************************************************************************)
SummaryModes == {"openai", "kosum-v1-fast", "kosum-v1-tuned", "other"}
DefaultMaxLength == 50      \* line 638
KosumMaxLength == 300       \* lines 360, 494, 499, 636
MinSummarizedLength == 100  \* line 663

\* the texts summarize_text is given
SummaryInputs ==
    {
     <<>>,   \* (empty)
     <<" "," ">>,   \*   
     <<"gyeong","je","ga"," ","seong","jang","haess","da",".">>,   \* 경제가 성장했다.
     <<"(","sa","jin","=","1","qil"," ","chwal","qyeong","han"," ","hyeon","jang"," ","mo","seub","qi","da",".">>,   \* (사진=1일 촬영한 현장 모습이다.
     <<"hong","gil","dong"," ","gi","ja"," ","="," ","bon","mun","qi","da",".">>,   \* 홍길동 기자 = 본문이다.
     <<"(","sa","jin","=","1","qil"," ","chwal","qyeong","han"," ","hyeon","jang"," ","mo","seub","qi","da","."," ","jeong","bu","neun"," ","qol","hae"," ","gyeong","je","ga"," ","seong","jang","haess","da","go"," ","balg","hyeoss","da","."," ","su","chul","qi"," ","keu","ge"," ","neul","qeoss","da",".">>,   \* (사진=1일 촬영한 현장 모습이다. 정부는 올해 경제가 성장했다고 밝혔다. 수출이 크게 늘었다.
     <<"jeong","bu","neun"," ","qol","hae"," ","gyeong","je","ga"," ","seong","jang","haess","da","go"," ","balg","hyeoss","da","."," ","su","chul","qi"," ","keu","ge"," ","neul","qeoss","go"," ","nae","su","do"," ","hoe","bog","dwaess","da","."," ","mul","ga","neun"," ","qan","jeong","se","reul"," ","bo","qyeoss","da","."," ","go","qyong"," ","ji","pyo","do"," ","ham","kke"," ","gae","seon","dwaess","da","."," ","jeon","mun","ga","deul","qeun"," ","nae","nyeon","qe","do"," ","seong","jang","se","ga"," ","qi","qeo","jil"," ","geos","qeu","ro"," ","nae","da","bwass","da",".">>,   \* 정부는 올해 경제가 성장했다고 밝혔다. 수출이 크게 늘었고 내수도 회복됐다. 물가는 안정세를 보였다. 고용 지표도 함께 개선됐다. 전문가들은 내년에도 성장세가 이어질 것으로 내다봤다.
     <<"(","sa","jin","=","1","qil"," ","chwal","qyeong","han"," ","hyeon","jang"," ","mo","seub","qi","da","."," ","jeong","bu","neun"," ","qol","hae"," ","gyeong","je","ga"," ","seong","jang","haess","da","go"," ","balg","hyeoss","da","."," ","su","chul","qi"," ","keu","ge"," ","neul","qeoss","go"," ","nae","su","do"," ","hoe","bog","dwaess","da","."," ","mul","ga","neun"," ","qan","jeong","se","reul"," ","bo","qyeoss","da","."," ","go","qyong"," ","ji","pyo","do"," ","ham","kke"," ","gae","seon","dwaess","da","."," ","jeon","mun","ga","deul","qeun"," ","nae","nyeon","qe","do"," ","seong","jang","se","ga"," ","qi","qeo","jil"," ","geos","qeu","ro"," ","nae","da","bwass","da",".">>,   \* (사진=1일 촬영한 현장 모습이다. 정부는 올해 경제가 성장했다고 밝혔다. 수출이 크게 늘었고 내수도 회복됐다. 물가는 안정세를 보였다. 고용 지표도 함께 개선됐다. 전문가들은 내년에도 성장세가 이어질 것으로 내다봤다.
     <<"gwan","ryeon","gi","sa"," ","deo","bo","gi","\n","gyeong","je","ga"," ","seong","jang","haess","da",".","\n","jeong","bu","neun"," ","qol","hae"," ","gyeong","je","ga"," ","seong","jang","haess","da","go"," ","balg","hyeoss","da","."," ","su","chul","qi"," ","keu","ge"," ","neul","qeoss","go"," ","nae","su","do"," ","hoe","bog","dwaess","da","."," ","mul","ga","neun"," ","qan","jeong","se","reul"," ","bo","qyeoss","da","."," ","go","qyong"," ","ji","pyo","do"," ","ham","kke"," ","gae","seon","dwaess","da","."," ","jeon","mun","ga","deul","qeun"," ","nae","nyeon","qe","do"," ","seong","jang","se","ga"," ","qi","qeo","jil"," ","geos","qeu","ro"," ","nae","da","bwass","da",".">>   \* 관련기사 더보기\n경제가 성장했다.\n정부는 올해 경제가 성장했다고 밝혔다. 수출이 크게 늘었고 내수도 회복됐다. 물가는 안정세를 보였다. 고용 지표도 함께 개선됐다. 전문가들은 내년에도 성장세가 이어질 것으로 내다봤다.
    }
\* what the OpenAI model or a local model answers
ModelOutputs ==
    {
     <<" ","jeong","bu","neun"," ","qol","hae"," ","gyeong","je","ga"," ","seong","jang","haess","da","go"," ","balg","hyeoss","da","."," ">>,   \*  정부는 올해 경제가 성장했다고 밝혔다. 
     <<"(","sa","jin","=","1","qil"," ","chwal","qyeong","han"," ","hyeon","jang"," ","mo","seub","qi","da","."," ","gyeong","je","ga"," ","seong","jang","haess","da",".">>,   \* (사진=1일 촬영한 현장 모습이다. 경제가 성장했다.
     <<"hong","gil","dong"," ","gi","ja"," ","="," ","gyeong","je","ga"," ","seong","jang","haess","da","go"," ","balg","hyeoss","da","."," ","su","chul","do"," ","neul","qeoss","da",".">>,   \* 홍길동 기자 = 경제가 성장했다고 밝혔다. 수출도 늘었다.
     <<"2","0","2","4"," ","gi","ja"," ","="," ","gyeong","je","ga"," ","seong","jang","haess","da","go"," ","balg","hyeoss","da",".">>,   \* 2024 기자 = 경제가 성장했다고 밝혔다.
     <<"qyo","qyag"," ","qeobs","qeum">>,   \* 요약 없음
     <<"jeong","bu","neun"," ","qol","hae"," ","gyeong","je","ga"," ","seong","jang","haess","da","go"," ","balg","hyeoss","da","."," ","su","chul","do"," ","neul">>   \* 정부는 올해 경제가 성장했다고 밝혔다. 수출도 늘
    }

SummaryInit ==
    /\ \E mode \in SummaryModes, client \in BOOLEAN :
          summarizer = [pc |-> "ready", summary_mode |-> mode,
                        openai_client |-> client,
                        kosum_model |-> "None", kosum_tuned_model |-> "None"]   \* 50-63
    /\ SentimentNotCalled /\ search = NotCalled
    /\ english = NotCalled /\ crawl = NotCalled /\ fallback = NotCalled
    /\ cleaner = NotCalled

\* summarize_text has returned summary
SummaryReturned(summary) ==
    /\ summarizer' = [summarizer EXCEPT !.pc = "done"] @@ [summary |-> summary]
    /\ UNCHANGED <<sentimentVars, search, english, crawl, fallback, cleaner>>

\* the fallback summary of the text as it was given, not as it was cleaned
SummaryFellBack_Mutant(failure, max_length) ==
    /\ summarizer' = [summarizer EXCEPT !.pc = "done"]
                         @@ [summary |-> FallbackSummarize(Strip(summarizer.text), max_length).summary,
                             failure |-> failure]
    /\ UNCHANGED <<sentimentVars, search, english, crawl, fallback, cleaner>>

\* summarize_text has returned self._fallback_summarize(text, max_length)
\* because of failure
SummaryFellBack(failure, max_length) ==
    /\ summarizer' = [summarizer EXCEPT !.pc = "done"]
                         @@ [summary |-> FallbackSummarize(summarizer.cleaned, max_length).summary,
                             failure |-> failure]
    /\ UNCHANGED <<sentimentVars, search, english, crawl, fallback, cleaner>>

\* lines 650-651: an empty or blank text is returned as it is
ReturnBlankInput ==
    /\ summarizer.pc = "ready"
    /\ \E text \in SummaryInputs :
          /\ Strip(text) = <<>>
          /\ summarizer' = [summarizer EXCEPT !.pc = "done"]
                               @@ [text |-> text, summary |-> text]
    /\ UNCHANGED <<sentimentVars, search, english, crawl, fallback, cleaner>>

\* lines 654-657: text = self._clean_article_text(text.strip())
CleanInput ==
    /\ summarizer.pc = "ready"
    /\ \E text \in SummaryInputs :
          /\ Strip(text) # <<>>
          /\ summarizer' = [summarizer EXCEPT !.pc = "cleaned"]
                               @@ [text |-> text,
                                   cleaned |-> CleanArticleText(Strip(text))]
    /\ UNCHANGED <<sentimentVars, search, english, crawl, fallback, cleaner>>

\* lines 659-660
ReturnNothingLeft ==
    /\ summarizer.pc = "cleaned"
    /\ Strip(summarizer.cleaned) = <<>>
    /\ SummaryReturned(<<>>)

\* lines 663-665: a text of under 100 characters is not summarized
ReturnShortText ==
    /\ summarizer.pc = "cleaned"
    /\ Strip(summarizer.cleaned) # <<>>
    /\ Len(Strip(summarizer.cleaned)) < MinSummarizedLength
    /\ SummaryReturned(IF Len(summarizer.cleaned) > DefaultMaxLength
                       THEN SubSeq(summarizer.cleaned, 1, DefaultMaxLength)
                       ELSE summarizer.cleaned)

\* the text is summarized
Summarized ==
    /\ summarizer.pc = "cleaned"
    /\ Len(Strip(summarizer.cleaned)) >= MinSummarizedLength

\* lines 668-696: the answer of the OpenAI model, stripped and cleaned
SummarizeWithOpenAI ==
    /\ Summarized
    /\ summarizer.summary_mode = "openai"
    /\ summarizer.openai_client
    /\ \E answer \in ModelOutputs : SummaryReturned(CleanSummary(Strip(answer)))

\* lines 698-701: the call to the OpenAI model raises
OpenAIRaises ==
    /\ Summarized
    /\ summarizer.summary_mode = "openai"
    /\ summarizer.openai_client
    /\ SummaryFellBack("the OpenAI call raises", DefaultMaxLength)

\* lines 702-704
OpenAIWithoutClient ==
    /\ Summarized
    /\ summarizer.summary_mode = "openai"
    /\ ~summarizer.openai_client
    /\ SummaryFellBack("no OpenAI client", DefaultMaxLength)

\* _load_kosum_model (282-314) and _load_kosum_tuned_model (316-355): the
\* model handle after the call; a loaded model is known as "loaded"
LoadKosumModel(model, TRANSFORMERS_AVAILABLE, load_succeeds) ==
    IF model # "None" THEN model                  \* 284-285
    ELSE IF ~TRANSFORMERS_AVAILABLE THEN "None"   \* 287-289
    ELSE IF load_succeeds THEN "loaded"           \* 291-309
    ELSE "None"                                   \* 310-314

\* _summarize_with_kosum (357-494) and _summarize_with_kosum_tuned (496-636)
\* on the model the mode names: without the transformers library, without
\* a model or when the model raises the fallback summary of at most 300
\* characters, otherwise the model's output stripped, cleaned and cut at a
\* sentence end (what the model is given, lines 370-450, is not modelled:
\* its output is any of ModelOutputs)
SummarizeWithKosumModel(model) ==
    \E TRANSFORMERS_AVAILABLE \in BOOLEAN, load_succeeds \in BOOLEAN,
       raises \in BOOLEAN, output \in ModelOutputs :
        IF ~TRANSFORMERS_AVAILABLE
        THEN SummaryFellBack("no transformers library", KosumMaxLength)    \* 359-360
        ELSE IF model = "None"
        THEN SummaryFellBack("no local model", KosumMaxLength)             \* 359-360
        ELSE LET loaded == IF model = "None"                                \* 364-365
                           THEN LoadKosumModel(model, TRANSFORMERS_AVAILABLE,
                                               load_succeeds)
                           ELSE model
             IN  IF loaded = "None"
                 THEN SummaryFellBack("the local model did not load",
                                      KosumMaxLength)                       \* 367-368
                 ELSE IF raises
                 THEN SummaryFellBack("the local model raises", KosumMaxLength)  \* 490-494
                 ELSE SummaryReturned(EndOnSentence(CleanSummary(Strip(output))))

\* lines 706-708
SummarizeWithKosum ==
    /\ Summarized
    /\ summarizer.summary_mode = "kosum-v1-fast"
    /\ SummarizeWithKosumModel(summarizer.kosum_model)

\* lines 710-712
SummarizeWithKosumTuned ==
    /\ Summarized
    /\ summarizer.summary_mode = "kosum-v1-tuned"
    /\ SummarizeWithKosumModel(summarizer.kosum_tuned_model)

\* lines 714-717
UnknownMode ==
    /\ Summarized
    /\ summarizer.summary_mode \notin {"openai", "kosum-v1-fast", "kosum-v1-tuned"}
    /\ SummaryFellBack("unknown mode", DefaultMaxLength)

SummaryNext ==
    \/ ReturnBlankInput
    \/ CleanInput
    \/ ReturnNothingLeft
    \/ ReturnShortText
    \/ SummarizeWithOpenAI
    \/ OpenAIRaises
    \/ OpenAIWithoutClient
    \/ SummarizeWithKosum
    \/ SummarizeWithKosumTuned
    \/ UnknownMode

SummarySpec == SummaryInit /\ [][SummaryNext]_vars

(***************************************************************************)
(* Claims about the summary                                                *)
(***************************************************************************)

\* C7: when the text given to summarize_text contains "기자 =" or "(사진=",
\* the summary it returns, in every mode, contains neither "기자 =" nor
\* "(사진=".
C7_NoBylineOrCaptionInSummary ==
    LET byline == <<"gi","ja"," ","=">>
        caption == <<"(","sa","jin","=">>
    IN  (/\ summarizer.pc = "done"
         /\ Contains(summarizer.text, byline) \/ Contains(summarizer.text, caption))
        => ~Contains(summarizer.summary, byline) /\ ~Contains(summarizer.summary, caption)

(***************************************************************************)
(* Claims about the ranges of a sentiment result                           *)
(***************************************************************************)

\* C11: every result of analyze, on every backend and branch, has one of
\* the three canonical labels, a score within [0, 1] and an integer
\* temperature within [0, 100].
C11_ResultWithinRanges ==
    sa_pc = "done" =>
        /\ sa_result.label \in CanonicalLabels
        /\ sa_result.score \in 0..1000
        /\ sa_result.temperature \in 0..100

\* the external model answers a label outside the three with a score of 1.5
C11_Witness ==
    /\ sa_pc = "done"
    /\ sa_reply.kind = "json"
    /\ sa_reply.label \notin CanonicalLabels
    /\ sa_reply.score > 1000
    /\ sa_result.label = LabelPositive
    /\ sa_result.score = 1000
    /\ sa_result.temperature = 100

\* C12: the cleaner never returns empty text for an input that has at
\* least one line longer than 20 characters (when its line filters remove
\* every line it falls back to the pre-cleaning lines longer than 20
\* characters).
C12_NeverEmptyForLongLine ==
    ( /\ cleaner.pc \in {"cleaned", "recleaned"}
      /\ \E k \in 1..Len(SplitLines(cleaner.text)) :
            Len(SplitLines(cleaner.text)[k]) > 20 ) =>
        cleaner.cleaned # <<>>

(***************************************************************************)
(* Claims about the summarizer's modes                                     *)
(***************************************************************************)

\* the length a fallback summary may have in the mode of the summarizer
FallbackLength ==
    IF summarizer.summary_mode \in {"kosum-v1-fast", "kosum-v1-tuned"}
    THEN KosumMaxLength ELSE DefaultMaxLength

\* C13: what summarize_text returns from any of its modes (the external
\* summarizer, the two local-model modes, the truncation fallback) is the
\* mode's raw output passed through the summary post-cleaning, and so a
\* summary of under 20 characters is returned as the empty string.
C13_EveryModePostCleaned ==
    ( /\ summarizer.pc = "done"
      /\ "cleaned" \in DOMAIN summarizer
      /\ Len(Strip(summarizer.cleaned)) >= MinSummarizedLength ) =>
        /\ IF "failure" \in DOMAIN summarizer
           THEN summarizer.summary =
                    CleanSummary(FallbackSummarize(summarizer.cleaned, FallbackLength).summary)
           ELSE \E answer \in ModelOutputs :
                    summarizer.summary \in {CleanSummary(Strip(answer)),
                                            EndOnSentence(CleanSummary(Strip(answer)))}
        /\ Len(summarizer.summary) < 20 => summarizer.summary = <<>>

\* C14: summarize_text never raises: when the call to the external
\* summarizer fails, or a local model is unavailable or raises, the call
\* has returned, and what it returns is the truncation fallback of the
\* cleaned text.
C14_FailureGivesFallback ==
    ( /\ "failure" \in DOMAIN summarizer
      /\ summarizer.failure # "unknown mode" ) =>
        /\ summarizer.pc = "done"
        /\ summarizer.summary =
               FallbackSummarize(summarizer.cleaned,
                                 FallbackLength).summary

\* the call to the external summarizer has raised on a text that lost a
\* line in cleaning and is longer than the fallback allows
C14_Witness ==
    /\ summarizer.pc = "done"
    /\ "failure" \in DOMAIN summarizer
    /\ summarizer.failure = "the OpenAI call raises"
    /\ Len(summarizer.cleaned) < Len(Strip(summarizer.text))
    /\ summarizer.summary # <<>>
    /\ Len(summarizer.summary) < Len(summarizer.cleaned)

(***************************************************************************)
(* Claims about failures in the crawl loop                                 *)
(***************************************************************************)

\* C15: no failure while one search item is processed (a fetch, the
\* summary, the date, a malformed or absent field of the raw item) leaves
\* the loop of crawl_news_with_full_text: the call never ends in an
\* exception, and once it has returned every item was either processed or
\* left over because max_results records were collected.
C15_NoFailureLeavesTheLoop ==
    /\ crawl.pc # "raised"
    /\ crawl.pc = "done" =>
          \/ crawl.items = <<>>
          \/ Len(crawl.results) >= crawl.max_results

(***************************************************************************)
(* The web service: src/app.py, get_sentiment_analyzer and POST /api/test  *)
(***************************************************************************)
MaxRequests == 2

\* the OpenAI API keys requests carry; NoKey for a request without one
ApiKeys == {"sk-A", "sk-B", "sk-C"}
NoKey == ""

\* sentiment_analyzer_openai = None, line 23.  An analyzer is known by the
\* key its OpenAI client was built with.
NoAnalyzer == "None"

\* model_mode of a request (TestRequest, line 76); every value but
\* 'openai' takes the else branch of line 2074
ModelModes == {"openai", "local"}

\* What the crawl and the filter of lines 2127-2163 hand to the scoring
\* step: records known by the text lines 2187 picks for the analysis (empty
\* when full_text, text and description are all empty) and by whether
\* analyzer.analyze raises on it.
MaxRecords == 2
NoText == <<>>
SomeText == <<"gi", "sa">>   \* 기사
RecordKinds ==
    {[text_for_analysis |-> NoText, analyze_raises |-> FALSE],
     [text_for_analysis |-> SomeText, analyze_raises |-> FALSE],
     [text_for_analysis |-> SomeText, analyze_raises |-> TRUE]}
CrawledResults == UNION {[1..n -> RecordKinds] : n \in 0..MaxRecords}

NoResponse == [pc |-> "no response yet"]

ApiInit ==
    /\ app = [sentiment_analyzer_openai |-> NoAnalyzer, served |-> <<>>,
              response |-> NoResponse]
    /\ AnalyzerNotCalled
    /\ english = NotCalled /\ crawl = NotCalled /\ fallback = NotCalled
    /\ cleaner = NotCalled /\ summarizer = NotCalled /\ search = NotCalled

\* get_sentiment_analyzer(openai_api_key, use_openai=True), lines 29-41:
\* the module's analyzer after the call, which is also what is returned.
\* An analyzer is built only while the global is None; constructs is FALSE
\* when SentimentAnalyzer(...) raises (lines 38-40).
GetSentimentAnalyzer(sentiment_analyzer_openai, openai_api_key, constructs) ==
    IF sentiment_analyzer_openai = NoAnalyzer
    THEN IF constructs THEN openai_api_key ELSE NoAnalyzer
    ELSE sentiment_analyzer_openai

\* lines 2071-2084: use_openai_sentiment
UseOpenAISentiment(model_mode, openai_api_key) ==
    IF model_mode = "openai" THEN TRUE ELSE openai_api_key # NoKey

\* line 2177 without its test of the key
SentimentWanted_Mutant(use_openai_sentiment, openai_api_key) ==
    use_openai_sentiment

\* line 2177: if use_openai_sentiment and request.openai_api_key
SentimentWanted(use_openai_sentiment, openai_api_key) ==
    use_openai_sentiment /\ openai_api_key # NoKey

\* lines 2182-2201: with an analyzer, every record that has a text is
\* scored and gets its 'sentiment' field unless analyze raises; the field
\* is known here by the analyzer that wrote it
ScoreRecords(results, scorer) ==
    [i \in 1..Len(results) |->
        IF /\ scorer # NoAnalyzer
           /\ results[i].text_for_analysis # NoText
           /\ ~ results[i].analyze_raises
        THEN results[i] @@ [sentiment |-> scorer]
        ELSE results[i]]

\* test_api, lines 2059-2224, for a logged-in session whose crawl returned
\* results: the backend is chosen, the analyzer fetched, the records scored
\* and the response returned
TestApi(model_mode, openai_api_key, constructs, results) ==
    LET use_openai_sentiment == UseOpenAISentiment(model_mode, openai_api_key)
        wanted == SentimentWanted(use_openai_sentiment, openai_api_key)
        global == IF wanted
                  THEN GetSentimentAnalyzer(app.sentiment_analyzer_openai,
                                            openai_api_key, constructs)
                  ELSE app.sentiment_analyzer_openai
        scorer == IF wanted THEN global ELSE NoAnalyzer
    IN  /\ app' = [sentiment_analyzer_openai |-> global,
                   served |-> Append(app.served,
                                     [openai_api_key |-> openai_api_key,
                                      scored_with |-> scorer]),
                   response |-> [success |-> TRUE,
                                 model_mode |-> model_mode,
                                 use_openai_sentiment |-> use_openai_sentiment,
                                 data |-> ScoreRecords(results, scorer),
                                 count |-> Len(results)]]
        /\ UNCHANGED <<analyzer, sa_pc, sa_text, sa_reply, sa_result, crawlerVars>>

\* test_api, lines 2071-2080 and 2176-2193: a request with a key is scored
\* by the analyzer get_sentiment_analyzer returns, when it returns one
TestApiWithKey ==
    /\ Len(app.served) < MaxRequests
    /\ \E model_mode \in ModelModes, openai_api_key \in ApiKeys,
          constructs \in BOOLEAN, results \in CrawledResults :
             TestApi(model_mode, openai_api_key, constructs, results)

\* test_api, lines 2177 and 2204-2205: without a key nothing is scored
TestApiWithoutKey ==
    /\ Len(app.served) < MaxRequests
    /\ \E model_mode \in ModelModes, results \in CrawledResults :
          TestApi(model_mode, NoKey, TRUE, results)

ApiNext == TestApiWithKey \/ TestApiWithoutKey

ApiSpec == ApiInit /\ [][ApiNext]_vars

\* C16: in any sequence of /api/test requests carrying different OpenAI API
\* keys, every request that is scored is scored with the key it carried: no
\* request is scored with a credential kept from an earlier request in the
\* module's global state.
C16_ScoredWithOwnKey ==
    \A i \in 1..Len(app.served) :
        app.served[i].scored_with # NoAnalyzer =>
            app.served[i].scored_with = app.served[i].openai_api_key

(***************************************************************************)
(* Claims about the keyword correction of the fine-tuned backend           *)
(***************************************************************************)

\* analyze has returned from the fine-tuned branch past the strong-negative
\* override: the classifier answered and the text holds no strong keyword
FinetunedCorrected ==
    /\ sa_pc = "done"
    /\ ~UsesOpenAI
    /\ analyzer.use_finetuned_model
    /\ sa_reply.kind = "probs"
    /\ FinetunedCounts[sa_text].strong_negative_count = 0

\* positive_count, negative_count (context matches added, lines 550-551)
\* and context_negative_count of the text analyze was called with
CountsOfText ==
    [positive_count |-> FinetunedCounts[sa_text].positive_count,
     negative_count |-> FinetunedCounts[sa_text].negative_count
                           + FinetunedCounts[sa_text].context_negative_count,
     context_negative_count |-> FinetunedCounts[sa_text].context_negative_count]

\* the bias C17 states, in thousandths
C17_Bias(positiveCount, negativeCount, contextFired) ==
    IF positiveCount > negativeCount THEN Min2(400, positiveCount * 100)
    ELSE IF negativeCount > positiveCount
    THEN IF contextFired THEN Max2(-400, -(negativeCount * 120))
         ELSE Max2(-300, -(negativeCount * 100))
    ELSE 0

\* C17: on the fine-tuned backend with no strong-negative match the keyword
\* bias is min(0.4, positiveCount * 0.1) when the positive count dominates,
\* max(-0.4, -negativeCount * 0.12) (a context pattern fired) or
\* max(-0.3, -negativeCount * 0.1) when the negative count dominates, and 0
\* otherwise; a text whose positive count exceeds its negative count never
\* gets a negative bias.
C17_BiasFollowsDominance ==
    FinetunedCorrected =>
        LET c == CountsOfText
            keyword_bias == KeywordBias(c.positive_count, c.negative_count,
                                        c.context_negative_count)
        IN  /\ keyword_bias = C17_Bias(c.positive_count, c.negative_count,
                                       c.context_negative_count > 0)
            /\ c.positive_count > c.negative_count => keyword_bias >= 0

\* the label C18 states, from the classifier's label and score
C18_Label(label, score, positiveCount, negativeCount, keyword_bias) ==
    LET adjusted == Max2(0, Min2(1000, score + keyword_bias))
    IN  IF adjusted >= 650 THEN LabelPositive
        ELSE IF adjusted <= 350 THEN LabelNegative
        ELSE IF positiveCount >= 2 /\ positiveCount > negativeCount THEN LabelPositive
        ELSE IF negativeCount >= 2 /\ negativeCount > positiveCount THEN LabelNegative
        ELSE label

\* C18: on the fine-tuned backend with no strong-negative match the final
\* label is positive if the adjusted score is at least 0.65, negative if it
\* is at most 0.35, otherwise positive if positiveCount >= 2 and
\* positiveCount > negativeCount, otherwise negative if negativeCount >= 2
\* and negativeCount > positiveCount, otherwise the classifier's label.
C18_FinalLabel ==
    FinetunedCorrected =>
        LET c == CountsOfText
        IN  sa_result.label =
                C18_Label(PredictedLabel(sa_reply), BaseScore(sa_reply),
                          c.positive_count, c.negative_count,
                          KeywordBias(c.positive_count, c.negative_count,
                                      c.context_negative_count))

\* two positive keywords outvote a classifier that says negative with an
\* adjusted score between the thresholds
C18_Witness ==
    /\ FinetunedCorrected
    /\ CountsOfText.positive_count = 2 /\ CountsOfText.negative_count = 0
    /\ PredictedLabel(sa_reply) = LabelNegative
    /\ BaseScore(sa_reply) = 400
    /\ sa_result.label = LabelPositive

(***************************************************************************)
(* Claims about the external-LLM backend                                   *)
(***************************************************************************)

\* C19: on the external-LLM backend, when the call to the service fails or
\* its answer cannot be parsed as JSON with a numeric score (no JSON, a
\* score that is no number, no score at all), analyze returns label
\* neutral, score 0.5 and temperature 50.
C19_FailureGivesNeutral ==
    ( /\ sa_pc = "done"
      /\ UsesOpenAI
      /\ sa_reply.kind \in {"api_error", "bad_json", "bad_score", "no_score"} ) =>
        /\ sa_result.label = LabelNeutral
        /\ sa_result.score = 500
        /\ sa_result.temperature = 50

\* C20: every result of the external-LLM backend has a label that agrees
\* with the banding of its score: positive only if score >= 0.7, negative
\* only if score <= 0.3.
C20_LabelAgreesWithBanding ==
    (sa_pc = "done" /\ UsesOpenAI) =>
        /\ sa_result.label = LabelPositive => sa_result.score >= 700
        /\ sa_result.label = LabelNegative => sa_result.score <= 300

(***************************************************************************)
(* Claims about the byline cut of the cleaner                              *)
(***************************************************************************)

\* C21: the cleaner cuts its text before the first line that matches the
\* byline pattern ("<name> 기자", line under 50 characters), so no line of
\* what it returns, the first line included, matches the byline pattern.
C21_NoBylineLineInOutput ==
    cleaner.pc \in {"cleaned", "recleaned"} =>
        \A k \in 1..Len(SplitLines(cleaner.cleaned)) :
            ~ ( /\ Found(Byline, SplitLines(cleaner.cleaned)[k], Plain)
                /\ Len(SplitLines(cleaner.cleaned)[k]) < 50 )


(***************************************************************************)
(* Paged search: NaverNewsAPICrawler.get_all_news,                         *)
(* src/src/crawl_naver_api.py lines 142-213.  The items of a page are      *)
(* only counted here: the method looks at nothing of an item but how many  *)
(* there are.                                                              *)
(***************************************************************************)

\* line 173: display = 100, the page size asked for
display == 100

\* the query argument: empty, blank, or a word
Queries == {<<>>, <<" ">>, <<"A", "I">>}

\* the max_results argument
MaxResultsChoices == {0, 1, 100, 150, 250}

\* What search_news returns (lines 67-140): None after a failed request,
\* a dictionary without 'items', or a dictionary with n items and a total.
NoPage == [kind |-> "no page yet"]
FailedResponse == [kind |-> "None"]
ResponseWithoutItems == [kind |-> "no items key"]
ItemPages == [kind : {"items"}, n : {0, 40, display},
              total : {0, 40, display, display + 1, 2 * display,
                       2 * display + 1, 10 * display}]

\* line 203, negated: a further page is worth asking for
MorePages_Mutant(start, total, n) == ~ (start + display > total)

MorePages(start, total, n) == ~ (start + display > total \/ n < display)

PagingInit ==
    /\ search \in [pc : {"called"}, query : Queries,
                   max_results : MaxResultsChoices, all_items : {0},
                   start : {1}, requests : {0}, last : {NoPage}]
    /\ SentimentNotCalled
    /\ english = NotCalled /\ crawl = NotCalled /\ fallback = NotCalled
    /\ cleaner = NotCalled /\ summarizer = NotCalled

PagingStep(next) ==
    /\ search' = next
    /\ UNCHANGED <<sentimentVars, english, crawl, fallback, cleaner, summarizer>>

\* lines 164-166: an empty or blank query returns [] at once
BlankQueryReturns ==
    /\ search.pc = "called"
    /\ Strip(search.query) = ""
    /\ PagingStep([search EXCEPT !.pc = "done"] @@ [returned |-> 0])

\* lines 168-173
QueryAccepted ==
    /\ search.pc = "called"
    /\ Strip(search.query) # ""
    /\ PagingStep([search EXCEPT !.pc = "loop"])

\* lines 175-183: the loop condition holds and the page at start is asked for
SearchNews ==
    /\ search.pc = "loop"
    /\ search.all_items < search.max_results
    /\ PagingStep([search EXCEPT !.pc = "response", !.requests = @ + 1])

\* line 175: the loop condition fails
LoopEnds ==
    /\ search.pc = "loop"
    /\ ~ (search.all_items < search.max_results)
    /\ PagingStep([search EXCEPT !.pc = "return"])

\* lines 185-187: if not result: break
ResponseFailed ==
    /\ search.pc = "response"
    /\ PagingStep([search EXCEPT !.pc = "return", !.last = FailedResponse])

\* lines 189-191: if 'items' not in result: break
ResponseHasNoItemsKey ==
    /\ search.pc = "response"
    /\ PagingStep([search EXCEPT !.pc = "return",
                                 !.last = ResponseWithoutItems])

\* lines 193-196: if not items: break
ResponseEmpty ==
    /\ search.pc = "response"
    /\ \E page \in ItemPages :
        /\ page.n = 0
        /\ PagingStep([search EXCEPT !.pc = "return", !.last = page])

\* lines 198-210: the items are kept; the loop goes on to the next page or
\* breaks
ResponsePage ==
    /\ search.pc = "response"
    /\ \E page \in ItemPages :
        /\ page.n > 0
        /\ PagingStep(
             IF MorePages(search.start, page.total, page.n)
             THEN [search EXCEPT !.pc = "loop", !.last = page,
                                 !.all_items = @ + page.n,
                                 !.start = @ + display]
             ELSE [search EXCEPT !.pc = "return", !.last = page,
                                 !.all_items = @ + page.n])

\* line 213: return all_items[:max_results]
GetAllNewsReturns ==
    /\ search.pc = "return"
    /\ PagingStep([search EXCEPT !.pc = "done"]
                  @@ [returned |-> Min2(search.all_items, search.max_results)])

PagingNext ==
    \/ BlankQueryReturns
    \/ QueryAccepted
    \/ SearchNews
    \/ LoopEnds
    \/ ResponseFailed
    \/ ResponseHasNoItemsKey
    \/ ResponseEmpty
    \/ ResponsePage
    \/ GetAllNewsReturns

PagingSpec == PagingInit /\ [][PagingNext]_vars

\* the method runs on once called: nothing in it waits for another thread
PagingLiveSpec == PagingSpec /\ WF_vars(PagingNext)

\* what get_all_news keeps at every point of a call
PagingBounded ==
    /\ search.pc = "done" => search.returned <= search.max_results
    /\ (search.pc = "response" /\ search.requests > 1) =>
           /\ search.last.kind = "items"
           /\ search.last.n = display
           /\ (search.start - display) + display <= search.last.total
           /\ search.all_items < search.max_results
    /\ ( \/ search.last.kind \in {"None", "no items key"}
         \/ (search.last.kind = "items" /\ search.last.n = 0) ) =>
           search.pc \in {"return", "done"}

\* C22: get_all_news terminates whatever the responses are, returns at most
\* max_results items, asks for a further page only after a full page of 100
\* items with start + 100 <= total and fewer than max_results items kept,
\* and stops at the first failed, key-less or empty response.
C22_PagingTerminatesWithinBounds ==
    [] PagingBounded /\ <> (search.pc = "done")

\* two full pages were fetched and the 200 items cut to max_results = 150
C22_Witness ==
    /\ search.pc = "done"
    /\ search.requests = 2
    /\ search.all_items > search.max_results
    /\ search.returned = search.max_results


\* C23: crawl_news_with_full_text returns at most max_results records, and
\* once the result list holds max_results records no later item of the
\* search is processed: the items and the processed list stay as they are.
C23_StopsAtMaxResults ==
    /\ [] ( crawl.pc # "raised" =>
                /\ Len(crawl.results) <= crawl.max_results
                /\ Len(crawl.results) >= crawl.max_results => crawl.pc # "loop" )
    /\ [][ (crawl.pc # "raised" /\ Len(crawl.results) >= crawl.max_results) =>
                /\ crawl'.pc # "raised"
                /\ crawl'.items = crawl.items
                /\ crawl'.processed = crawl.processed
                /\ Len(crawl'.results) = Len(crawl.results) ]_vars

\* the call returned max_results records and left items of the search
\* unprocessed
C23_Witness ==
    /\ crawl.pc = "done"
    /\ Len(crawl.results) = crawl.max_results
    /\ crawl.items # <<>>
    /\ crawl.include_full_text


ExternalFetches == {"search page fetch", "view-count fetch", "full-text fetch"}

\* C24: every unit of external work (a search page fetch, a view-count
\* fetch, a full-text fetch) is followed by the fixed delay before the next
\* external request is made, whether the fetch succeeded or failed.
C24_DelayAfterEveryFetch ==
    \A i \in 1..(Len(crawl.events) - 1) :
        crawl.events[i] \in ExternalFetches => crawl.events[i + 1] = "delay"


\* C25: in /api/test a record carries a sentiment result only if an
\* external-sentiment backend was selected and an OpenAI key was supplied;
\* in every other case (local mode without a key, no analyzer available,
\* an empty text, an exception while scoring) the record is returned
\* without a sentiment field, and the request still succeeds.
C25_SentimentOnlyWithBackendAndKey ==
    app.response # NoResponse =>
        LET request == app.served[Len(app.served)]
            data == app.response.data
        IN  /\ app.response.success
            /\ Len(data) = app.response.count
            /\ \A i \in 1..Len(data) :
                  /\ "sentiment" \in DOMAIN data[i] =>
                        /\ app.response.use_openai_sentiment
                        /\ request.openai_api_key # NoKey
                  /\ ( \/ ~ app.response.use_openai_sentiment
                       \/ request.openai_api_key = NoKey
                       \/ request.scored_with = NoAnalyzer
                       \/ data[i].text_for_analysis = NoText
                       \/ data[i].analyze_raises ) =>
                        "sentiment" \notin DOMAIN data[i]

\* a request in local mode that carried a key: one record scored, the record
\* on which the scoring raised returned without the field
C25_Witness ==
    /\ app.response # NoResponse
    /\ app.response.model_mode = "local"
    /\ app.response.success
    /\ Len(app.response.data) = 2
    /\ "sentiment" \in DOMAIN app.response.data[1]
    /\ app.response.data[2].analyze_raises
    /\ "sentiment" \notin DOMAIN app.response.data[2]


(***************************************************************************)
(* Sessions of the web service: src/app.py, the module's sessions store    *)
(* (line 19), get_session, require_login, home, login and logout, in one   *)
(* server process.                                                         *)
(***************************************************************************)

\* how many sessions are created, and how far the clock runs
MaxSessions == 2
MaxTicks == 4
\* the clock is read in hours and moves in steps of TickHours
TickHours == 12

\* line 86: timedelta(hours=24)
SessionHours == 24

\* session ids are the tokens secrets.token_urlsafe(32) returns (line 2015),
\* numbered in the order they are made; a request may also come without a
\* cookie or with a cookie the server never set
NoCookie == 0
ForgedCookie == -1

\* the client id and secret a login carries
Credentials == {"registered", "unregistered"}

\* What the search API answers to the test search of login (line 2001):
\* a page, a page with an item whose title is null, HTTP 401 for
\* credentials it rejects, or no answer at all.
SearchAnswers(credentials) ==
    IF credentials = "registered"
    THEN {"200", "200 with a null title", "timeout"}
    ELSE {"401"}

\* search_news, lines 109-140: raise_for_status raises for 401 and
\* requests.get for a timeout; both are caught and None is returned
SearchNewsResult(answer) ==
    IF answer \in {"401", "timeout"} THEN "None" ELSE "page"

\* The exception get_recent_news lets through to login, as the words of
\* its message.  After None from search_news, get_all_news breaks (lines
\* 185-187) and the crawl returns the empty list: there is no exception.
\* The one exception the crawl lets through is the AttributeError of an
\* item with a null title (line 1452).
NoException == <<>>
AttributeError == <<"'NoneType'", "object", "has", "no", "attribute", "'replace'">>
GetRecentNewsError(answer) ==
    IF SearchNewsResult(answer) = "None" THEN NoException
    ELSE IF answer = "200 with a null title" THEN AttributeError
    ELSE NoException

\* lines 2002-2009: the except clause answers 401 for a message that holds
\* "401", "Unauthorized" or "인증"
RejectionWords == {"401", "Unauthorized", "qin-jeung"}
LoginRejects(error_msg) ==
    \E i \in 1..Len(error_msg) : error_msg[i] \in RejectionWords

SessionInit ==
    /\ app = [sessions |-> <<>>, issued |-> 0, now |-> 0,
              response |-> [op |-> "none", turn |-> 0]]
    /\ AnalyzerNotCalled
    /\ english = NotCalled /\ crawl = NotCalled /\ fallback = NotCalled
    /\ cleaner = NotCalled /\ summarizer = NotCalled /\ search = NotCalled

\* the cookies a client can send
Cookies == {NoCookie, ForgedCookie} \cup (1..app.issued)

\* a deletion that deletes nothing
Without_Mutant(sessions, session_id) == sessions

\* del sessions[session_id]
Without(sessions, session_id) ==
    [s \in DOMAIN sessions \ {session_id} |-> sessions[s]]

\* a session that never expires
Expired_Mutant(now, session) == FALSE

\* line 86, negated: the session is 24 hours old or older
Expired(now, session) == ~ (now - session.created_at < SessionHours)

\* get_session, lines 80-91: the session returned (NoSession for None) and
\* the store after the call
NoSession == [client |-> "None"]
GetSession(sessions, session_id, now) ==
    IF session_id # NoCookie /\ session_id \in DOMAIN sessions
    THEN IF ~ Expired(now, sessions[session_id])
         THEN [session |-> sessions[session_id], sessions |-> sessions]
         ELSE [session |-> NoSession,
               sessions |-> Without(sessions, session_id)]
    ELSE [session |-> NoSession, sessions |-> sessions]

Responds(sessions, issued, response) ==
    /\ app' = [sessions |-> sessions, issued |-> issued, now |-> app.now,
               response |-> response @@ [turn |-> 1 - app.response.turn]]
    /\ UNCHANGED <<analyzer, sa_pc, sa_text, sa_reply, sa_result, crawlerVars>>

\* login, lines 1988-2044: the session is made unless the except clause
\* of the test search answered 401
Login ==
    /\ app.issued < MaxSessions
    /\ \E credentials \in Credentials :
       \E answer \in SearchAnswers(credentials) :
          IF LoginRejects(GetRecentNewsError(answer))
          THEN Responds(app.sessions, app.issued,
                        [op |-> "login", credentials |-> credentials,
                         answer |-> answer, success |-> FALSE,
                         status |-> 401, session_id |-> NoCookie])
          ELSE Responds(app.sessions
                          @@ [s \in {app.issued + 1} |->
                                 [client |-> credentials,
                                  created_at |-> app.now]],
                        app.issued + 1,
                        [op |-> "login", credentials |-> credentials,
                         answer |-> answer, success |-> TRUE,
                         status |-> 200, session_id |-> app.issued + 1])

\* a request to an endpoint that depends on require_login (lines 94-102,
\* 2060): 401 without a session
ApiRequest ==
    \E session_id \in Cookies :
       LET got == GetSession(app.sessions, session_id, app.now)
       IN  Responds(got.sessions, app.issued,
                    [op |-> "request", session_id |-> session_id,
                     authenticated |-> got.session # NoSession,
                     status |-> IF got.session # NoSession THEN 200 ELSE 401])

\* a request for the main page (lines 105-110): redirected to /login
\* without a session
HomeRequest ==
    \E session_id \in Cookies :
       LET got == GetSession(app.sessions, session_id, app.now)
       IN  Responds(got.sessions, app.issued,
                    [op |-> "request", session_id |-> session_id,
                     authenticated |-> got.session # NoSession,
                     status |-> IF got.session # NoSession THEN 200 ELSE 302])

\* logout, lines 2047-2056
Logout ==
    \E session_id \in Cookies :
       Responds(IF session_id # NoCookie /\ session_id \in DOMAIN app.sessions
                THEN Without(app.sessions, session_id)
                ELSE app.sessions,
                app.issued,
                [op |-> "logout", session_id |-> session_id,
                 success |-> TRUE, status |-> 200])

\* datetime.now() moves on between two requests
TimePasses ==
    /\ app.now + TickHours <= MaxTicks * TickHours
    /\ app' = [app EXCEPT !.now = @ + TickHours]
    /\ UNCHANGED <<analyzer, sa_pc, sa_text, sa_reply, sa_result, crawlerVars>>

SessionNext == Login \/ ApiRequest \/ HomeRequest \/ Logout \/ TimePasses

SessionSpec == SessionInit /\ [][SessionNext]_vars

\* the step is the handling of a request of this kind
Handled(op) ==
    app'.response.turn # app.response.turn /\ app'.response.op = op

\* a session that left the store does not come back
GoneStaysGone ==
    \A s \in 1..app.issued :
        s \notin DOMAIN app.sessions => s \notin DOMAIN app'.sessions

\* C26: a login whose client id and secret the search API rejects with
\* HTTP 401 returns a failure response and creates no session, so that the
\* store holds sessions only for credentials that passed the check.
C26_RejectedLoginCreatesNoSession ==
    /\ [][ (Handled("login") /\ app'.response.answer = "401") =>
              /\ ~ app'.response.success
              /\ app'.sessions = app.sessions ]_vars
    /\ [] (\A s \in DOMAIN app.sessions :
              app.sessions[s].client = "registered")

\* C27: get_session returns a session only if it is in the store and
\* now - created_at < 24h, and the first access at or after expiry deletes
\* it from the store, so that it never authenticates again.
C27_AuthenticatesOnlyWhileFresh ==
    /\ [][ Handled("request") =>
              LET s == app'.response.session_id
              IN  /\ app'.response.authenticated =>
                        /\ s \in DOMAIN app.sessions
                        /\ app.now - app.sessions[s].created_at < SessionHours
                  /\ (s \in DOMAIN app.sessions
                      /\ app.now - app.sessions[s].created_at >= SessionHours) =>
                        /\ s \notin DOMAIN app'.sessions
                        /\ ~ app'.response.authenticated ]_vars
    /\ [][ GoneStaysGone ]_vars

\* a session was asked for 24 hours after its creation and is gone
C27_Witness ==
    /\ app.response.op = "request"
    /\ app.response.session_id = 1
    /\ ~ app.response.authenticated
    /\ 1 \notin DOMAIN app.sessions
    /\ 2 \in DOMAIN app.sessions
    /\ app.now = SessionHours

MinutesOf(d) ==
    ((((d.year * 12 + d.month) * 31 + d.day) * 24 + d.hour) * 60) + d.minute

\* C29: with sort_by = "date" the records come back newest first: of any
\* two records whose publication times were parsed, the one published
\* later stands before the one published earlier.
C29_NewestFirst ==
    (crawl.pc = "done" /\ crawl.sort_by = "date") =>
        \A i, j \in 1..Len(crawl.results) :
            MinutesOf(crawl.processed[crawl.results[i].link].pubDate)
              > MinutesOf(crawl.processed[crawl.results[j].link].pubDate)
            => i < j


\* the handle of the local model the summarizer's mode names
ModelHandle ==
    IF summarizer.summary_mode = "kosum-v1-fast"
    THEN summarizer.kosum_model ELSE summarizer.kosum_tuned_model

\* C30: the local summarization models are lazily loaded: in mode
\* 'kosum-v1-fast' or 'kosum-v1-tuned', the first summarize_text call on a
\* cleaned text of at least 100 characters triggers the model load (where
\* the transformers library is there to load with), so that the call ends
\* with a model in the handle, or with a load that was tried and failed.
C30_FirstCallLoadsModel ==
    ( /\ summarizer.pc = "done"
      /\ summarizer.summary_mode \in {"kosum-v1-fast", "kosum-v1-tuned"}
      /\ "cleaned" \in DOMAIN summarizer
      /\ Len(Strip(summarizer.cleaned)) >= MinSummarizedLength
      /\ ~ ( /\ "failure" \in DOMAIN summarizer
             /\ summarizer.failure = "no transformers library" ) ) =>
        \/ ModelHandle # "None"
        \/ /\ "failure" \in DOMAIN summarizer
           /\ summarizer.failure = "the local model did not load"

=============================================================================
